---- MODULE Spec2Model ----
(***************************************************************************)
(* A state-machine model of Passport::FormController                       *)
(* (Telegram/SourceFiles/passport/passport_form_controller.cpp).           *)
(*                                                                         *)
(* Byte strings are flat tuples of strings (Empty is the empty byte        *)
(* string), optionals are sequences of length at most one, field maps are  *)
(* total functions over FieldKeys with the marker Absent for a missing     *)
(* key.  A handler is an operator from a state record S to the state       *)
(* record after it ran; an action applies one handler to the current       *)
(* state.  A tripped Expects/Assert/Ensures aborts the process: it is      *)
(* recorded in `failure` and nothing runs afterwards.                       *)
(***************************************************************************)
EXTENDS Integers, Sequences, FiniteSets, TLC

VARIABLES
    values,                 \* _form.values : type -> Value
    formRequest,            \* _form.request : required types, in order
    selfieRequired,         \* _form.identitySelfieRequired
    requestPayload,         \* _request.payload
    bot,                    \* _bot != nullptr
    shown,                  \* what showForm() put on screen, in order
    fileLoaders,            \* _fileLoaders : the keys that have a loader
    passwordSalt,           \* !_password.salt.empty()
    secret,                 \* _secret
    secretId,               \* _secretId
    secretCallbacks,        \* _secretCallbacks
    saveSecretRequestId,    \* _saveSecretRequestId
    passwordCheckRequestId, \* _passwordCheckRequestId
    submitRequestId,        \* _submitRequestId
    formRequestId,          \* _formRequestId
    passwordRequestId,      \* _passwordRequestId
    network,                \* requests sent and not yet answered or cancelled
    remoteSecret,           \* the secure secret the remote authority stores
    mainQueue,              \* closures posted with crl::on_main, in order
    asyncTasks,             \* closures running under crl::async
    uploads,                \* attempts the uploader still works on
    loading,                \* keys whose loader has not finished
    started,                \* loaders the last step created and started
    wasDeleted,             \* the deleted flag of the scan that the last step
                            \* addressed, as it was before the step
    cancelled,              \* attempts the last step asked the uploader to cancel
    fired,                  \* events fired by the last step, in order
    sent,                   \* requests sent by the last step, in order
    toasts,                 \* toasts shown by the last step
    op,                     \* the operation the last step ran
    returned,               \* what it returned, "" for a void one
    failure                 \* "none", or the contract check that aborted

vars == <<values, formRequest, selfieRequired, requestPayload, bot, shown,
          fileLoaders, passwordSalt, secret, secretId,
          secretCallbacks, saveSecretRequestId, passwordCheckRequestId,
          submitRequestId, formRequestId, passwordRequestId, network,
          remoteSecret, mainQueue, asyncTasks, uploads, loading, started,
          wasDeleted, cancelled, fired,
          sent, toasts, op, returned, failure>>

----------------------------------------------------------------------------
(* Bounds of the model.                                                    *)

MaxEditScreens == 2
MaxQueued == 3
MaxStaged == 2
MaxEncrypting == 1

(* Program constants.                                                      *)

kDocumentScansLimit == 20

----------------------------------------------------------------------------
(* Data.                                                                   *)

Empty == <<>>
Absent == "<absent>"

EncryptedTypes == {"PersonalDetails", "Passport"}
PlainTypes == {"Phone", "Email"}
Types == EncryptedTypes \cup PlainTypes

FieldKeys == {"value", "name"}
Texts == {"", "a", "b"}

ValueMap == [k \in FieldKeys |-> Absent]

MapEmpty(m) == \A k \in FieldKeys : m[k] = Absent

MapBytes(m) == <<m["value"], m["name"]>>

Verification ==
    [requestId |-> 0, codeLength |-> 0, phoneCodeHash |-> "",
     call |-> FALSE, error |-> ""]

ValueData ==
    [original |-> Empty, hash |-> Empty, encryptedSecret |-> Empty,
     secret |-> Empty, parsed |-> ValueMap, hashInEdit |-> Empty,
     encryptedSecretInEdit |-> Empty, parsedInEdit |-> ValueMap]

Value(type) ==
    [type |-> type, submitHash |-> Empty, data |-> ValueData,
     scans |-> <<>>, selfie |-> <<>>, scansInEdit |-> <<>>,
     selfieInEdit |-> <<>>, verification |-> Verification,
     editScreens |-> 0, saveRequestId |-> 0, error |-> ""]

File ==
    [id |-> 0, dcId |-> 0, size |-> 0, hash |-> Empty, secret |-> Empty,
     encryptedSecret |-> Empty, image |-> FALSE, downloadOffset |-> 0]

EditFile(fields, uploadData, guard) ==
    [fields |-> fields, uploadData |-> uploadData, deleted |-> FALSE,
     guard |-> guard]

----------------------------------------------------------------------------
(* The cryptographic primitives, as the rest of the code relies on them:   *)
(* a wrapped secret opens only under the key and hash it was wrapped with, *)
(* a ciphertext opens only under its own secret and hash.                  *)

MasterSecret(name) == <<"msecret", name>>
ItemSecret(name) == <<"isecret", name>>

CountSecureSecretHash(s) ==
    IF s = MasterSecret("srv") THEN 11
    ELSE IF s = MasterSecret("gen") THEN 12
    ELSE 13

EncryptSecureSecret(salt, s, password) == <<"msecret-wrapped", s[2], salt, password>>

DecryptSecureSecret(salt, encrypted, password) ==
    IF /\ Len(encrypted) = 4
       /\ encrypted[1] = "msecret-wrapped"
       /\ encrypted[3] = salt
       /\ encrypted[4] = password
    THEN MasterSecret(encrypted[2])
    ELSE Empty

DataHash(pad, bytes) == <<"hash", pad>> \o bytes

EncryptData(pad, bytes, s) ==
    [bytes |-> <<"enc", s[2], pad>> \o bytes, hash |-> DataHash(pad, bytes),
     secret |-> s]

DecryptData(bytes, hash, s) ==
    IF /\ Len(bytes) >= 3
       /\ Len(s) = 2
       /\ bytes[1] = "enc"
       /\ bytes[2] = s[2]
       /\ hash = DataHash(bytes[3], SubSeq(bytes, 4, Len(bytes)))
    THEN SubSeq(bytes, 4, Len(bytes))
    ELSE Empty

EncryptValueSecret(s, master, hash) ==
    IF Len(s) = 2 /\ Len(master) = 2
    THEN <<"isecret-wrapped", s[2], master[2]>> \o hash
    ELSE <<"isecret-wrapped", "?", "?">> \o hash

DecryptValueSecret(encrypted, master, hash) ==
    IF /\ Len(encrypted) >= 3
       /\ Len(master) = 2
       /\ encrypted[1] = "isecret-wrapped"
       /\ encrypted[2] # "?"
       /\ encrypted[3] = master[2]
       /\ SubSeq(encrypted, 4, Len(encrypted)) = hash
    THEN ItemSecret(encrypted[2])
    ELSE Empty

SerializeData(fields) == MapBytes(fields)

DeserializeData(bytes) ==
    IF Len(bytes) = 2
    THEN [k \in FieldKeys |-> IF k = "value" THEN bytes[1] ELSE bytes[2]]
    ELSE ValueMap

----------------------------------------------------------------------------
(* The state as one record, so that a handler can call another.             *)

Cur ==
    [values |-> values, formRequest |-> formRequest,
     selfieRequired |-> selfieRequired, requestPayload |-> requestPayload,
     bot |-> bot, shown |-> shown, fileLoaders |-> fileLoaders,
     passwordSalt |-> passwordSalt, secret |-> secret,
     secretId |-> secretId, secretCallbacks |-> secretCallbacks,
     saveSecretRequestId |-> saveSecretRequestId,
     passwordCheckRequestId |-> passwordCheckRequestId,
     submitRequestId |-> submitRequestId, formRequestId |-> formRequestId,
     passwordRequestId |-> passwordRequestId, network |-> network,
     remoteSecret |-> remoteSecret, mainQueue |-> mainQueue,
     asyncTasks |-> asyncTasks, uploads |-> uploads,
     loading |-> loading, started |-> started, wasDeleted |-> wasDeleted,
     cancelled |-> cancelled, fired |-> fired, sent |-> sent,
     toasts |-> toasts, op |-> op, returned |-> returned,
     failure |-> failure]

Operation(name, type, id, arg) ==
    [name |-> name, type |-> type, id |-> id, arg |-> arg]

(* The state a handler starts from: the outputs of the last step cleared.   *)
Begin(name, type, id, arg) ==
    [Cur EXCEPT !.fired = <<>>, !.sent = <<>>, !.toasts = <<>>,
                !.cancelled = {}, !.started = <<>>, !.wasDeleted = FALSE,
                !.returned = "",
                !.op = Operation(name, type, id, arg)]

(* A failed Expects/Assert/Ensures: the process aborts where it stands.     *)
Abort(S, what) == IF S.failure = "none" THEN [S EXCEPT !.failure = what] ELSE S

Ok(S) == S.failure = "none"

(* The step to the state a handler left; an aborted handler leaves the      *)
(* state it started from, marked with the check that failed.                *)
Commit(S) ==
    IF S.failure # "none"
    THEN /\ failure' = S.failure
         /\ op' = S.op
         /\ fired' = <<>>
         /\ sent' = <<>>
         /\ toasts' = <<>>
         /\ cancelled' = {}
         /\ started' = <<>>
         /\ wasDeleted' = FALSE
         /\ returned' = ""
         /\ UNCHANGED <<values, formRequest, selfieRequired, requestPayload,
                        bot, shown, fileLoaders, passwordSalt, secret,
                        secretId, secretCallbacks, saveSecretRequestId,
                        passwordCheckRequestId, submitRequestId,
                        formRequestId, passwordRequestId, network,
                        remoteSecret, mainQueue, asyncTasks, uploads,
                        loading>>
    ELSE /\ values' = S.values
         /\ formRequest' = S.formRequest
         /\ selfieRequired' = S.selfieRequired
         /\ requestPayload' = S.requestPayload
         /\ bot' = S.bot
         /\ shown' = S.shown
         /\ fileLoaders' = S.fileLoaders
         /\ passwordSalt' = S.passwordSalt
         /\ secret' = S.secret
         /\ secretId' = S.secretId
         /\ secretCallbacks' = S.secretCallbacks
         /\ saveSecretRequestId' = S.saveSecretRequestId
         /\ passwordCheckRequestId' = S.passwordCheckRequestId
         /\ submitRequestId' = S.submitRequestId
         /\ formRequestId' = S.formRequestId
         /\ passwordRequestId' = S.passwordRequestId
         /\ network' = S.network
         /\ remoteSecret' = S.remoteSecret
         /\ mainQueue' = S.mainQueue
         /\ asyncTasks' = S.asyncTasks
         /\ uploads' = S.uploads
         /\ loading' = S.loading
         /\ started' = S.started
         /\ wasDeleted' = S.wasDeleted
         /\ cancelled' = S.cancelled
         /\ fired' = S.fired
         /\ sent' = S.sent
         /\ toasts' = S.toasts
         /\ op' = S.op
         /\ returned' = S.returned
         /\ failure' = S.failure

Running == failure = "none"

----------------------------------------------------------------------------
(* The transport: MTP::Sender::request().send() and .cancel().             *)

Min(set) == CHOOSE x \in set : \A y \in set : x <= y

(* Request ids the program still holds, beside those of open requests.     *)
HeldIds(S) ==
    {S.saveSecretRequestId, S.passwordCheckRequestId, S.submitRequestId,
     S.formRequestId, S.passwordRequestId, S.op.id}
    \cup {S.values[t].saveRequestId : t \in DOMAIN S.values}
    \cup {S.values[t].verification.requestId : t \in DOMAIN S.values}

(* A fresh request id: one that no open request and no field holds.         *)
NewRequestId(S) ==
    Min((1..(Cardinality(DOMAIN S.network) + Cardinality(HeldIds(S)) + 1))
        \ (DOMAIN S.network \cup HeldIds(S)))

Request(kind, type, payload) ==
    [kind |-> kind, type |-> type, payload |-> payload]

(* request(...).send(): the request is open, and its id is NewRequestId(S). *)
Send(S, r) ==
    LET id == NewRequestId(S)
    IN  [S EXCEPT
            !.network = [i \in DOMAIN S.network \cup {id} |->
                            IF i = id THEN r ELSE S.network[i]],
            !.sent = Append(S.sent, r)]

(* request(id).cancel(), and the end of a request that was answered.        *)
Close(S, id) ==
    [S EXCEPT !.network = [i \in DOMAIN S.network \ {id} |-> S.network[i]]]

Fire(S, event, type) ==
    [S EXCEPT !.fired = Append(S.fired, <<event, type>>)]

Open(kind, type) ==
    {id \in DOMAIN network :
        network[id].kind = kind /\ network[id].type = type}

----------------------------------------------------------------------------
(* Staged files: their uploads and their liveness guards.                   *)

UploadScanData(fileId, hash) ==
    [fileId |-> fileId, fullId |-> 0, partsCount |-> 0, offset |-> 0,
     hash |-> hash]

EditFiles(v) == v.scansInEdit \o v.selfieInEdit

AllEditFiles(S) ==
    UNION {{EditFiles(S.values[t])[i] :
                i \in 1..Len(EditFiles(S.values[t]))} :
            t \in DOMAIN S.values}

(* UploadScanDataPointer::~UploadScanDataPointer for each of `files`.       *)
UploadsOf(files) ==
    {files[i].uploadData[1].fullId :
        i \in {j \in 1..Len(files) :
                 /\ files[j].uploadData # <<>>
                 /\ files[j].uploadData[1].fullId # 0}}

(* A destruction that leaves the uploads alone, to try the properties        *)
(* against.                                                                 *)
ForgetFiles(S, files) == S

DestroyFiles(S, files) ==
    [S EXCEPT !.uploads = @ \ UploadsOf(files),
              !.cancelled = @ \cup UploadsOf(files)]

(* std::make_shared<bool>(true): a guard no live EditFile and no pending    *)
(* closure refers to, apart from the EditFiles in `dying`.                  *)
UsedGuards(S, dying) ==
    {f.guard : f \in AllEditFiles(S) \ {dying[i] : i \in 1..Len(dying)}}
    \cup {task.guard : task \in S.asyncTasks}
    \cup {S.mainQueue[i].guard : i \in 1..Len(S.mainQueue)}

RECURSIVE FreshGuards(_, _)
FreshGuards(used, n) ==
    IF n = 0 THEN <<>>
    ELSE LET g == Min((1..(Cardinality(used) + 1)) \ used)
         IN  <<g>> \o FreshGuards(used \cup {g}, n - 1)

----------------------------------------------------------------------------
(* Values as the remote authority returns them, and their decryption.       *)

fillDownloadedFile(destination, source) ==
    LET found == {i \in 1..Len(source) :
                     source[i].fields.hash = destination.hash}
    IN  IF found = {} THEN destination
        ELSE [destination EXCEPT
                !.image = source[Min(found)].fields.image,
                !.downloadOffset = source[Min(found)].fields.downloadOffset]

parseFile(data, editData) ==
    fillDownloadedFile(
        [File EXCEPT !.id = data.id, !.dcId = data.dcId,
                     !.size = data.size, !.hash = data.hash,
                     !.encryptedSecret = data.secret],
        editData)

parseFiles(data, editData) ==
    [i \in 1..Len(data) |-> parseFile(data[i], editData)]

parseValue(value, editData) ==
    LET r0 == [Value(value.type) EXCEPT !.submitHash = value.hash]
        r1 == IF value.hasData
              THEN [r0 EXCEPT !.data.original = value.data.data,
                              !.data.hash = value.data.hash,
                              !.data.encryptedSecret = value.data.secret]
              ELSE r0
        r2 == IF value.hasFiles
              THEN [r1 EXCEPT !.scans = parseFiles(value.files, editData)]
              ELSE r1
        r3 == IF value.hasSelfie
              THEN [r2 EXCEPT !.selfie = parseFiles(value.selfie, editData)]
              ELSE r2
    IN  IF value.hasPlain
        THEN [r3 EXCEPT !.data.parsed["value"] = value.plain]
        ELSE r3

validateFileSecret(file, master) ==
    [file EXCEPT
        !.secret = DecryptValueSecret(file.encryptedSecret, master, file.hash)]

(* validateValueSecrets: the value with the secrets it unwrapped, and       *)
(* whether every one of them unwrapped.                                     *)
validateValueSecrets(value, master) ==
    LET v1 == IF value.data.original # Empty
              THEN [value EXCEPT !.data.secret =
                        DecryptValueSecret(value.data.encryptedSecret,
                                           master, value.data.hash)]
              ELSE value
        v2 == [v1 EXCEPT
                !.scans = [i \in 1..Len(v1.scans) |->
                              validateFileSecret(v1.scans[i], master)],
                !.selfie = [i \in 1..Len(v1.selfie) |->
                              validateFileSecret(v1.selfie[i], master)]]
    IN  [value |-> v2,
         ok |-> /\ (value.data.original # Empty => v2.data.secret # Empty)
                /\ \A i \in 1..Len(v2.scans) : v2.scans[i].secret # Empty
                /\ \A i \in 1..Len(v2.selfie) : v2.selfie[i].secret # Empty]

resetValue(S, type) ==
    [DestroyFiles(S, EditFiles(S.values[type])) EXCEPT
        !.values[type] = Value(S.values[type].type)]

decryptValue(S, type) ==
    IF S.secret = Empty THEN Abort(S, "decryptValue.Expects")
    ELSE LET validated == validateValueSecrets(S.values[type], S.secret)
             value == validated.value
         IN  IF ~validated.ok THEN resetValue(S, type)
             ELSE IF value.data.original # Empty
             THEN [S EXCEPT !.values[type] =
                    [value EXCEPT !.data.parsed =
                        DeserializeData(DecryptData(value.data.original,
                                                    value.data.hash,
                                                    value.data.secret))]]
             ELSE [S EXCEPT !.values[type] = value]

RECURSIVE decryptEach(_, _)
decryptEach(S, types) ==
    IF types = {} \/ ~Ok(S) THEN S
    ELSE LET type == CHOOSE t \in types : TRUE
         IN  decryptEach(decryptValue(S, type), types \ {type})

decryptValues(S) ==
    IF S.secret = Empty THEN Abort(S, "decryptValues.Expects")
    ELSE decryptEach(S, DOMAIN S.values)

----------------------------------------------------------------------------
(* The edit session of a value.                                             *)

isEncryptedValue(type) == type # "Phone" /\ type # "Email"

savingValue(value) ==
    \/ value.saveRequestId # 0
    \/ value.verification.requestId # 0
    \/ value.verification.codeLength # 0

findValue(S, type) ==
    IF type \in DOMAIN S.values THEN S ELSE Abort(S, "findValue.Assert")

clearValueEdit(S, type) ==
    IF savingValue(S.values[type]) THEN S
    ELSE [DestroyFiles(S, EditFiles(S.values[type])) EXCEPT
            !.values[type].scansInEdit = <<>>,
            !.values[type].selfieInEdit = <<>>,
            !.values[type].data.encryptedSecretInEdit = Empty,
            !.values[type].data.hashInEdit = Empty,
            !.values[type].data.parsedInEdit = ValueMap]

cancelValueEdit(S, type) ==
    IF ~(S.values[type].editScreens > 0)
    THEN Abort(S, "cancelValueEdit.Expects")
    ELSE clearValueEdit(
            [S EXCEPT !.values[type].editScreens = @ - 1], type)

(* A valueEditFailed that clears the edit whatever sessions are open, to    *)
(* try the properties against.                                              *)
valueEditFailedClearing(S, type) == clearValueEdit(S, type)

valueEditFailed(S, type) ==
    IF savingValue(S.values[type])
    THEN Abort(S, "valueEditFailed.Expects")
    ELSE IF S.values[type].editScreens = 0 THEN clearValueEdit(S, type)
    ELSE S

valueSaveFailed(S, type) ==
    LET S1 == valueEditFailed(S, type)
    IN  IF Ok(S1) THEN Fire(S1, "valueSaveFinished", type) ELSE S1

verificationError(S, type, text) ==
    Fire([S EXCEPT !.values[type].verification.error = text],
         "verificationUpdate", type)

(* A clearValueVerification that clears nothing, to try the properties     *)
(* against.                                                                 *)
keepValueVerification(S, type) == S

clearValueVerification(S, type) ==
    LET was == S.values[type].verification.codeLength # 0
        requestId == S.values[type].verification.requestId
        S1 == IF requestId # 0 THEN Close(S, requestId) ELSE S
        S2 == [S1 EXCEPT !.values[type].verification = Verification]
    IN  IF was THEN Fire(S2, "verificationUpdate", type) ELSE S2

cancelValueVerification(S, type) ==
    LET S1 == clearValueVerification(findValue(S, type), type)
    IN  IF ~Ok(S1) THEN S1
        ELSE IF ~savingValue(S1.values[type]) THEN valueEditFailed(S1, type)
        ELSE S1

editFileChanged(file) ==
    IF file.uploadData # <<>> THEN ~file.deleted ELSE file.deleted

(* An editValueChanged that finds a change in every edit, to try the        *)
(* properties against.                                                      *)
editAlwaysChanged(value, data) == TRUE

editValueChanged(value, data) ==
    \/ \E i \in 1..Len(value.scansInEdit) :
          editFileChanged(value.scansInEdit[i])
    \/ \E i \in 1..Len(value.selfieInEdit) :
          editFileChanged(value.selfieInEdit[i])
    \/ \E key \in FieldKeys :
          /\ data[key] # Absent
          /\ value.data.parsed[key] # Absent
          /\ value.data.parsed[key] # data[key]
    \/ \E key \in FieldKeys :
          /\ data[key] # Absent
          /\ value.data.parsed[key] = Absent
          /\ data[key] # ""
    \/ \E key \in FieldKeys :
          /\ value.data.parsed[key] # Absent
          /\ data[key] = Absent

----------------------------------------------------------------------------
(* Saving a value.                                                          *)

getPlainTextFromValue(value) == value.data.parsedInEdit["value"]

(* MTP_inputSecureFileUploaded / MTP_inputSecureFile.  Of a file that is    *)
(* already stored the request carries the id alone; size, hash and secret   *)
(* stand for what the remote authority keeps under that id.                 *)
inputFile(file) ==
    [uploaded |-> file.uploadData # <<>>,
     id |-> file.fields.id,
     dcId |-> file.fields.dcId,
     size |-> file.fields.size,
     partsCount |-> IF file.uploadData # <<>>
                    THEN file.uploadData[1].partsCount ELSE 0,
     hash |-> file.fields.hash,
     secret |-> file.fields.encryptedSecret]

NoFlags == [data |-> FALSE, files |-> FALSE, selfie |-> FALSE,
            plain |-> FALSE]

NoSecureData == [data |-> Empty, hash |-> Empty, secret |-> Empty]

sendSaveRequest(S, type, data) ==
    IF S.values[type].saveRequestId # 0
    THEN Abort(S, "sendSaveRequest.Expects")
    ELSE [Send(S, Request("SaveSecureValue", type,
                          [data EXCEPT !.secretId = S.secretId]))
            EXCEPT !.values[type].saveRequestId = NewRequestId(S)]

savePlainTextValue(S, type) ==
    IF isEncryptedValue(S.values[type].type)
    THEN Abort(S, "savePlainTextValue.Expects")
    ELSE IF getPlainTextFromValue(S.values[type]) = Absent
    THEN Abort(S, "getPlainTextFromValue.Assert")
    ELSE sendSaveRequest(S, type,
            [flags |-> [NoFlags EXCEPT !.plain = TRUE],
             data |-> NoSecureData,
             files |-> <<>>,
             plain |-> getPlainTextFromValue(S.values[type]),
             selfie |-> <<>>,
             secretId |-> 0])

saveEncryptedValue(S, type) ==
    IF ~isEncryptedValue(S.values[type].type)
    THEN Abort(S, "saveEncryptedValue.Expects")
    ELSE IF S.secret = Empty
    THEN [S EXCEPT !.secretCallbacks = Append(@, type)]
    ELSE
    LET value == S.values[type]
        kept == SelectSeq(value.scansInEdit, LAMBDA scan : ~scan.deleted)
        inputFiles == [i \in 1..Len(kept) |-> inputFile(kept[i])]
        dataSecret == IF value.data.secret = Empty
                      THEN ItemSecret(type) ELSE value.data.secret
        encryptedData == EncryptData(type,
                            SerializeData(value.data.parsedInEdit),
                            dataSecret)
        encryptedSecretInEdit ==
            EncryptValueSecret(dataSecret, S.secret, encryptedData.hash)
        hasSelfie == /\ value.selfieInEdit # <<>>
                     /\ ~value.selfieInEdit[1].deleted
        selfie == IF hasSelfie
                  THEN <<inputFile(value.selfieInEdit[1])>> ELSE <<>>
        flags == [data |-> ~(/\ value.scansInEdit = <<>>
                             /\ MapEmpty(value.data.parsedInEdit)),
                  files |-> value.scansInEdit # <<>>,
                  selfie |-> hasSelfie,
                  plain |-> FALSE]
        S1 == [S EXCEPT
                !.values[type].data.secret = dataSecret,
                !.values[type].data.hashInEdit = encryptedData.hash,
                !.values[type].data.encryptedSecretInEdit =
                    encryptedSecretInEdit]
    IN  IF flags = NoFlags THEN Abort(S1, "saveEncryptedValue.Assert")
        ELSE sendSaveRequest(S1, type,
                [flags |-> flags,
                 data |-> [data |-> encryptedData.bytes,
                           hash |-> encryptedData.hash,
                           secret |-> encryptedSecretInEdit],
                 files |-> inputFiles,
                 plain |-> Absent,
                 selfie |-> selfie,
                 secretId |-> 0])

(* The closure saveValueEdit posts when the edit changed nothing.           *)
SaveUnchanged(type) ==
    [kind |-> "saveUnchanged", type |-> type, index |-> 0, guard |-> 0,
     fileId |-> 0, bytes |-> Empty, secret |-> Empty]

saveValueEdit(S, type, data) ==
    IF savingValue(S.values[type]) \/ S.submitRequestId # 0 THEN S
    ELSE IF ~Ok(findValue(S, type)) THEN findValue(S, type)
    ELSE IF ~editValueChanged(S.values[type], data)
    THEN [S EXCEPT !.values[type].saveRequestId = -1,
                   !.mainQueue = Append(@, SaveUnchanged(type))]
    ELSE LET S1 == [S EXCEPT !.values[type].data.parsedInEdit = data]
         IN  IF isEncryptedValue(S1.values[type].type)
             THEN saveEncryptedValue(S1, type)
             ELSE savePlainTextValue(S1, type)

(* The body of that closure, saveValueEdit's crl::on_main(this, ...).       *)
saveUnchangedDone(S, type) ==
    Fire([DestroyFiles(S, EditFiles(S.values[type])) EXCEPT
            !.values[type].scansInEdit = <<>>,
            !.values[type].selfieInEdit = <<>>,
            !.values[type].data.encryptedSecretInEdit = Empty,
            !.values[type].data.hashInEdit = Empty,
            !.values[type].data.parsedInEdit = ValueMap,
            !.values[type].error = "",
            !.values[type].saveRequestId = 0],
         "valueSaveFinished", type)

(* A delete that does not look at the submission, to try the properties     *)
(* against.                                                                 *)
deleteDuringSubmission(S, type) ==
    IF savingValue(S.values[type]) THEN S
    ELSE [Send(S, Request("DeleteSecureValue", type, Empty))
            EXCEPT !.values[type].saveRequestId = NewRequestId(S)]

deleteValueEdit(S, type) ==
    IF savingValue(S.values[type]) \/ S.submitRequestId # 0 THEN S
    ELSE IF ~Ok(findValue(S, type)) THEN findValue(S, type)
    ELSE [Send(S, Request("DeleteSecureValue", type, Empty))
            EXCEPT !.values[type].saveRequestId = NewRequestId(S)]

(* deleteValueEdit's .done and .fail                                        *)
deleteValueDone(S, type) ==
    Fire([DestroyFiles(S, EditFiles(S.values[type])) EXCEPT
            !.values[type] =
                [Value(S.values[type].type) EXCEPT
                    !.editScreens = S.values[type].editScreens]],
         "valueSaveFinished", type)

deleteValueFail(S, type) ==
    valueSaveFailed([S EXCEPT !.values[type].saveRequestId = 0], type)

(* sendSaveRequest's .done: the files staged in the edit outlive the value  *)
(* they belonged to until the handler returns.                              *)
saveValueDone(S, type, result) ==
    LET filesInEdit == EditFiles(S.values[type])
        editScreens == S.values[type].editScreens
        S1 == [S EXCEPT !.values[type] = parseValue(result, filesInEdit)]
        S2 == decryptValue(S1, type)
    IN  IF ~Ok(S2) THEN S2
        ELSE Fire(DestroyFiles(
                    [S2 EXCEPT !.values[type].editScreens = editScreens],
                    filesInEdit),
                  "valueSaveFinished", type)

----------------------------------------------------------------------------
(* Phone and email verification.                                            *)

lng_signin_wrong_code == "lng_signin_wrong_code"

(* QString::trimmed(): a code is a sequence of characters.                  *)
RECURSIVE TrimLeft(_)
TrimLeft(text) ==
    IF text # <<>> /\ Head(text) = " " THEN TrimLeft(Tail(text)) ELSE text

RECURSIVE TrimRight(_)
TrimRight(text) ==
    IF text # <<>> /\ text[Len(text)] = " "
    THEN TrimRight(SubSeq(text, 1, Len(text) - 1))
    ELSE text

(* A trimmed() that trims nothing, to try the properties against.          *)
untrimmed(text) == text

trimmed(text) == TrimRight(TrimLeft(text))

getPhoneFromValue(S, type) ==
    IF S.values[type].type # "Phone"
    THEN Abort(S, "getPhoneFromValue.Expects")
    ELSE IF getPlainTextFromValue(S.values[type]) = Absent
    THEN Abort(S, "getPlainTextFromValue.Assert")
    ELSE S

getEmailFromValue(S, type) ==
    IF S.values[type].type # "Email"
    THEN Abort(S, "getEmailFromValue.Expects")
    ELSE IF getPlainTextFromValue(S.values[type]) = Absent
    THEN Abort(S, "getPlainTextFromValue.Assert")
    ELSE S

startPhoneVerification(S, type) ==
    IF ~Ok(getPhoneFromValue(S, type)) THEN getPhoneFromValue(S, type)
    ELSE [Send(S, Request("SendVerifyPhoneCode", type, Empty))
            EXCEPT !.values[type].verification.requestId = NewRequestId(S)]

(* startPhoneVerification's .done; length is the code length of the         *)
(* auth.sentCode, next whether its next_type is a call.                     *)
phoneCodeDone(S, type, sentCodeType, length, next) ==
    LET S1 == [S EXCEPT
                !.values[type].verification.requestId = 0,
                !.values[type].verification.phoneCodeHash = "hash"]
        codeLength == IF length > 0 THEN length ELSE -1
    IN  IF sentCodeType \in {"App", "FlashCall"} THEN S1
        ELSE IF sentCodeType = "Call"
        THEN Fire([S1 EXCEPT
                    !.values[type].verification.codeLength = codeLength,
                    !.values[type].verification.call = TRUE],
                  "verificationNeeded", type)
        ELSE Fire([S1 EXCEPT
                    !.values[type].verification.codeLength = codeLength,
                    !.values[type].verification.call = next],
                  "verificationNeeded", type)

phoneCodeFail(S, type) ==
    valueSaveFailed(
        [S EXCEPT !.values[type].verification.requestId = 0], type)

startEmailVerification(S, type) ==
    IF ~Ok(getEmailFromValue(S, type)) THEN getEmailFromValue(S, type)
    ELSE [Send(S, Request("SendVerifyEmailCode", type, Empty))
            EXCEPT !.values[type].verification.requestId = NewRequestId(S)]

emailCodeDone(S, type, length) ==
    Fire([S EXCEPT
            !.values[type].verification.requestId = 0,
            !.values[type].verification.codeLength =
                IF length > 0 THEN length ELSE -1],
         "verificationNeeded", type)

emailCodeFail(S, type) == valueSaveFailed(S, type)

(* sendSaveRequest's .fail                                                  *)
saveValueFail(S, type, error) ==
    LET S1 == [S EXCEPT !.values[type].saveRequestId = 0]
    IN  IF /\ error = "PHONE_VERIFICATION_NEEDED"
           /\ S1.values[type].type = "Phone"
        THEN startPhoneVerification(S1, type)
        ELSE IF /\ error = "EMAIL_VERIFICATION_NEEDED"
                /\ S1.values[type].type = "Email"
        THEN startEmailVerification(S1, type)
        ELSE valueSaveFailed(S1, type)

(* A verify without its guard on an outstanding request, to try the        *)
(* properties against.                                                      *)
verifyAgain(S, type, code) ==
    [Send(verificationError(S, type, ""),
          Request("VerifyPhone", type, trimmed(code)))
        EXCEPT !.values[type].verification.requestId = NewRequestId(S)]

verify(S, type, code) ==
    IF S.values[type].verification.requestId # 0 THEN S
    ELSE IF ~Ok(findValue(S, type)) THEN findValue(S, type)
    ELSE IF S.values[type].verification.codeLength = 0
    THEN Abort(S, "verify.Assert")
    ELSE
    LET prepared == trimmed(code)
        codeLength == S.values[type].verification.codeLength
        S1 == verificationError(S, type, "")
    IN  IF codeLength > 0 /\ codeLength # Len(prepared)
        THEN verificationError(S1, type, lng_signin_wrong_code)
        ELSE IF prepared = <<>>
        THEN verificationError(S1, type, lng_signin_wrong_code)
        ELSE IF S1.values[type].type = "Phone"
        THEN [Send(getPhoneFromValue(S1, type),
                   Request("VerifyPhone", type, prepared))
                EXCEPT !.values[type].verification.requestId =
                            NewRequestId(S1)]
        ELSE IF S1.values[type].type = "Email"
        THEN [Send(getEmailFromValue(S1, type),
                   Request("VerifyEmail", type, prepared))
                EXCEPT !.values[type].verification.requestId =
                            NewRequestId(S1)]
        ELSE Abort(S1, "verify.Unexpected")

(* verify's .done and .fail, the same for a phone and for an email but for  *)
(* the error that names a wrong code.                                       *)
verifyDone(S, type) ==
    LET S1 == savePlainTextValue(S, type)
    IN  IF Ok(S1) THEN clearValueVerification(S1, type) ELSE S1

(* A fail handler that leaves verification.requestId as it is, to try the   *)
(* properties against.                                                      *)
verifyFailStuck(S, type, error) == verificationError(S, type, error)

verifyFail(S, type, error) ==
    LET S1 == [S EXCEPT !.values[type].verification.requestId = 0]
        invalid == IF S1.values[type].type = "Phone"
                   THEN "PHONE_CODE_INVALID" ELSE "CODE_INVALID"
    IN  IF error = invalid
        THEN verificationError(S1, type, lng_signin_wrong_code)
        ELSE verificationError(S1, type, error)

----------------------------------------------------------------------------
(* The master secret.                                                       *)

RECURSIVE runSecretCallbacks(_, _)
runSecretCallbacks(S, callbacks) ==
    IF callbacks = <<>> \/ ~Ok(S) THEN S
    ELSE runSecretCallbacks(saveEncryptedValue(S, Head(callbacks)),
                            Tail(callbacks))

(* A generateSecret that does not look at the request in flight, to try     *)
(* the properties against.                                                  *)
generateSecretAgain(S, password) ==
    [Send(S, Request("UpdatePasswordSettings", "",
            [secret |-> MasterSecret("gen"),
             secureSecretId |-> CountSecureSecretHash(MasterSecret("gen")),
             salt |-> "salt-gen",
             encryptedSecret |->
                EncryptSecureSecret("salt-gen", MasterSecret("gen"),
                                    password)]))
        EXCEPT !.saveSecretRequestId = NewRequestId(S)]

generateSecret(S, password) ==
    IF S.saveSecretRequestId # 0 THEN S
    ELSE LET generated == MasterSecret("gen")
             newSecureSaltFull == "salt-gen"
         IN  [Send(S, Request("UpdatePasswordSettings", "",
                    [secret |-> generated,
                     secureSecretId |-> CountSecureSecretHash(generated),
                     salt |-> newSecureSaltFull,
                     encryptedSecret |->
                        EncryptSecureSecret(newSecureSaltFull, generated,
                                            password)]))
                EXCEPT !.saveSecretRequestId = NewRequestId(S)]

(* generateSecret's .done, with the closure's secret and secureSecretId,    *)
(* and its .fail                                                            *)
saveSecretDone(S, captured) ==
    runSecretCallbacks(
        [S EXCEPT !.saveSecretRequestId = 0,
                  !.secret = captured.secret,
                  !.secretId = captured.secureSecretId,
                  !.secretCallbacks = <<>>],
        S.secretCallbacks)

saveSecretFail(S) == [S EXCEPT !.saveSecretRequestId = 0]

RECURSIVE resetEach(_, _)
resetEach(S, types) ==
    IF types = {} THEN S
    ELSE LET type == CHOOSE t \in types : TRUE
         IN  resetEach(resetValue(S, type), types \ {type})

(* _secretReady.fire({}): the panel that listens puts the form on screen.   *)
secretReady(S) ==
    Fire([S EXCEPT !.shown = IF \E i \in 1..Len(@) : @[i] = "form"
                             THEN @ ELSE Append(@, "form")],
         "secretReady", "")

validateSecureSecret(S, salt, encryptedSecret, password) ==
    LET S1 ==
            IF salt # "" /\ encryptedSecret # Empty
            THEN LET unwrapped ==
                        DecryptSecureSecret(salt, encryptedSecret, password)
                 IN  IF unwrapped = Empty
                     THEN resetEach(
                            [S EXCEPT !.secret = Empty, !.secretId = 0],
                            {t \in DOMAIN S.values :
                                S.values[t].data.original # Empty})
                     ELSE decryptValues(
                            [S EXCEPT
                                !.secret = unwrapped,
                                !.secretId =
                                    CountSecureSecretHash(unwrapped)])
            ELSE S
        S2 == IF Ok(S1) /\ S1.secret = Empty
              THEN generateSecret(S1, password) ELSE S1
    IN  IF Ok(S2) THEN secretReady(S2) ELSE S2

submitPassword(S, password) ==
    IF S.passwordSalt = "" THEN Abort(S, "submitPassword.Expects")
    ELSE IF S.passwordCheckRequestId # 0 THEN S
    ELSE LET S1 == IF password = ""
                   THEN Fire(S, "passwordError", "") ELSE S
         IN  [Send(S1, Request("GetPasswordSettings", "", password))
                EXCEPT !.passwordCheckRequestId = NewRequestId(S1)]

(* submitPassword's .done, with what the remote authority stores and the    *)
(* closure's password, and its .fail                                        *)
passwordCheckDone(S, salt, encryptedSecret, password) ==
    validateSecureSecret([S EXCEPT !.passwordCheckRequestId = 0],
                         salt, encryptedSecret, password)

passwordCheckFail(S, error) ==
    Fire([S EXCEPT !.passwordCheckRequestId = 0], "passwordError", error)

----------------------------------------------------------------------------
(* Fetching the form and the password.                                      *)

requestForm(S) ==
    IF S.requestPayload = ""
    THEN [S EXCEPT !.formRequestId = -1, !.shown = Append(@, "formError")]
    ELSE [Send(S, Request("GetAuthorizationForm", "", Empty))
            EXCEPT !.formRequestId = NewRequestId(S)]

requestPassword(S) ==
    [Send(S, Request("GetPassword", "", Empty))
        EXCEPT !.passwordRequestId = NewRequestId(S)]

show(S) == requestPassword(requestForm(S))

(* A passwordDone that does not wait for the form, to try the properties   *)
(* against.                                                                 *)
passwordDoneEager(S, salt) ==
    LET S1 == [S EXCEPT !.passwordRequestId = 0, !.passwordSalt = salt]
    IN  IF ~S1.bot THEN [S1 EXCEPT !.shown = Append(@, "noBot")]
        ELSE IF salt # ""
        THEN [S1 EXCEPT !.shown = Append(@, "askPassword")]
        ELSE [S1 EXCEPT !.shown = Append(@, "noPassword")]

showForm(S) ==
    IF ~S.bot THEN [S EXCEPT !.shown = Append(@, "noBot")]
    ELSE IF S.passwordSalt # ""
    THEN [S EXCEPT !.shown = Append(@, "askPassword")]
    ELSE [S EXCEPT !.shown = Append(@, "noPassword")]

(* A parseForm whose placeholders replace what the remote authority        *)
(* returned, to try the properties against.                                 *)
parseFormOverwriting(S, result) ==
    LET present == {result.values[i].type : i \in 1..Len(result.values)}
        required == {result.required[i] : i \in 1..Len(result.required)}
        first(type) == Min({i \in 1..Len(result.values) :
                                result.values[i].type = type})
    IN  [S EXCEPT
            !.values =
                [type \in DOMAIN S.values \cup present \cup required |->
                    IF type \in required THEN Value(type)
                    ELSE IF type \in DOMAIN S.values THEN S.values[type]
                    ELSE parseValue(result.values[first(type)], <<>>)],
            !.selfieRequired = result.selfieRequired,
            !.formRequest = @ \o result.required,
            !.bot = result.bot]

(* parseForm: of the values the remote authority returns the first of a     *)
(* type stays; a required type without one gets an empty value.             *)
parseForm(S, result) ==
    LET present == {result.values[i].type : i \in 1..Len(result.values)}
        required == {result.required[i] : i \in 1..Len(result.required)}
        first(type) == Min({i \in 1..Len(result.values) :
                                result.values[i].type = type})
    IN  [S EXCEPT
            !.values =
                [type \in DOMAIN S.values \cup present \cup required |->
                    IF type \in DOMAIN S.values THEN S.values[type]
                    ELSE IF type \in present
                    THEN parseValue(result.values[first(type)], <<>>)
                    ELSE Value(type)],
            !.selfieRequired = result.selfieRequired,
            !.formRequest = @ \o result.required,
            !.bot = result.bot]

formDone(S, result) ==
    LET S1 == parseForm([S EXCEPT !.formRequestId = 0], result)
    IN  IF S1.passwordRequestId = 0 THEN showForm(S1) ELSE S1

formFail(S) == [S EXCEPT !.shown = Append(@, "formError")]

passwordDone(S, salt) ==
    LET S1 == [S EXCEPT !.passwordRequestId = 0, !.passwordSalt = salt]
    IN  IF S1.formRequestId = 0 THEN showForm(S1) ELSE S1

----------------------------------------------------------------------------
(* Staging files: scans and the selfie.                                     *)

lng_passport_scans_limit_reached == "lng_passport_scans_limit_reached"

(* A canAddScan without the limit, to try the properties against.           *)
canAlwaysAddScan(value) == TRUE

canAddScan(value) ==
    Cardinality({i \in 1..Len(value.scansInEdit) :
                    ~value.scansInEdit[i].deleted}) < kDocumentScansLimit

FileIds(S) ==
    {f.fields.id : f \in AllEditFiles(S)}
    \cup UNION {{S.values[t].scans[i].id : i \in 1..Len(S.values[t].scans)}
                    \cup {S.values[t].selfie[i].id :
                            i \in 1..Len(S.values[t].selfie)} :
                t \in DOMAIN S.values}
    \cup {task.fileId : task \in S.asyncTasks}
    \cup {S.mainQueue[i].fileId : i \in 1..Len(S.mainQueue)}

(* rand_value<uint64>(): an id no file of the form has.                     *)
NewFileId(S) == Min((1..(Cardinality(FileIds(S)) + 1)) \ FileIds(S))

(* prepareFile, for the content of one image                                *)
prepareFile(S, fileId, content) ==
    [File EXCEPT !.id = fileId, !.dcId = 1, !.size = content.size,
                 !.secret = ItemSecret(ToString(fileId)),
                 !.image = content.image,
                 !.downloadOffset = content.size]

(* The closure encryptFile hands to crl::async.                             *)
EncryptTask(type, index, guard, file, content) ==
    [kind |-> "encrypt", type |-> type, index |-> index, guard |-> guard,
     fileId |-> file.id, bytes |-> content.bytes, secret |-> file.secret]

(* uploadScan; the staged scan is addressed by its index from now on.       *)
uploadScan(S, type, content) ==
    IF ~canAddScan(S.values[type])
    THEN [S EXCEPT !.toasts = Append(@, lng_passport_scans_limit_reached)]
    ELSE IF ~Ok(findValue(S, type)) THEN findValue(S, type)
    ELSE LET scanIndex == Len(S.values[type].scansInEdit) + 1
             guard == FreshGuards(UsedGuards(S, <<>>), 1)[1]
             fileId == NewFileId(S)
             scan == EditFile(prepareFile(S, fileId, content), <<>>, guard)
         IN  Fire([S EXCEPT
                    !.values[type].scansInEdit = Append(@, scan),
                    !.asyncTasks = @ \cup
                        {EncryptTask(type, scanIndex, guard, scan.fields,
                                     content)}],
                  "scanUpdated", type)

(* uploadSelfie; index 0 addresses the selfie.                              *)
uploadSelfie(S, type, content) ==
    IF ~Ok(findValue(S, type)) THEN findValue(S, type)
    ELSE LET old == S.values[type].selfieInEdit
             guard == FreshGuards(UsedGuards(S, old), 1)[1]
             fileId == NewFileId(S)
             file == EditFile(prepareFile(S, fileId, content), <<>>, guard)
         IN  Fire([DestroyFiles(S, old) EXCEPT
                    !.values[type].selfieInEdit = <<file>>,
                    !.asyncTasks = @ \cup
                        {EncryptTask(type, 0, guard, file.fields, content)}],
                  "scanUpdated", type)

(* A delete that erases the staged scan, to try the properties against.     *)
scanEraseRestore(S, type, scanIndex, deleted) ==
    IF deleted
    THEN Fire([S EXCEPT !.values[type].scansInEdit =
                    [i \in 1..(Len(@) - 1) |->
                        IF i < scanIndex THEN @[i] ELSE @[i + 1]]],
              "scanUpdated", type)
    ELSE Fire([S EXCEPT
                !.values[type].scansInEdit[scanIndex].deleted = FALSE],
              "scanUpdated", type)

scanDeleteRestore(S, type, scanIndex, deleted) ==
    IF ~(scanIndex >= 1 /\ scanIndex <= Len(S.values[type].scansInEdit))
    THEN Abort(S, "scanDeleteRestore.Expects")
    ELSE IF ~Ok(findValue(S, type)) THEN findValue(S, type)
    ELSE IF /\ S.values[type].scansInEdit[scanIndex].deleted
            /\ ~deleted
            /\ ~canAddScan(S.values[type])
    THEN [S EXCEPT !.toasts = Append(@, lng_passport_scans_limit_reached)]
    ELSE Fire([S EXCEPT
                !.values[type].scansInEdit[scanIndex].deleted = deleted],
              "scanUpdated", type)

deleteScan(S, type, scanIndex) == scanDeleteRestore(S, type, scanIndex, TRUE)

restoreScan(S, type, scanIndex) ==
    scanDeleteRestore(S, type, scanIndex, FALSE)

selfieDeleteRestore(S, type, deleted) ==
    IF S.values[type].selfieInEdit = <<>>
    THEN Abort(S, "selfieDeleteRestore.Expects")
    ELSE IF ~Ok(findValue(S, type)) THEN findValue(S, type)
    ELSE Fire([S EXCEPT !.values[type].selfieInEdit[1].deleted = deleted],
              "scanUpdated", type)

----------------------------------------------------------------------------
(* Encrypting and uploading a staged file.                                  *)

(* std::map<Value::Type, Value> iterates in the order of the enumeration.   *)
TypeOrder(type) ==
    CASE type = "PersonalDetails" -> 1
      [] type = "Passport" -> 2
      [] type = "Phone" -> 9
      [] type = "Email" -> 10

(* A staged file's place: the scan at `index`, or the selfie (index 0).     *)
Place(type, index) == [type |-> type, index |-> index]

Places(S) ==
    UNION {{Place(t, i) : i \in 1..Len(S.values[t].scansInEdit)}
              \cup {Place(t, 0) : i \in 1..Len(S.values[t].selfieInEdit)} :
           t \in DOMAIN S.values}

editFileAt(S, place) ==
    IF place.index = 0 THEN S.values[place.type].selfieInEdit[1]
    ELSE S.values[place.type].scansInEdit[place.index]

setEditFile(S, place, file) ==
    IF place.index = 0
    THEN [S EXCEPT !.values[place.type].selfieInEdit = <<file>>]
    ELSE [S EXCEPT !.values[place.type].scansInEdit[place.index] = file]

(* The place a loop over the values, their scans and then their selfie      *)
(* comes to first among `places`.                                           *)
FirstPlace(places) ==
    CHOOSE p \in places : \A q \in places :
        \/ TypeOrder(p.type) < TypeOrder(q.type)
        \/ /\ p.type = q.type
           /\ \/ q.index = 0
              \/ (p.index # 0 /\ p.index <= q.index)

(* findEditFile(const FullMsgId &): the places that match, none or one      *)
findEditFile(S, fullId) ==
    LET found == {p \in Places(S) :
                    /\ editFileAt(S, p).uploadData # <<>>
                    /\ editFileAt(S, p).uploadData[1].fullId = fullId}
    IN  IF found = {} THEN {} ELSE {FirstPlace(found)}

(* clientMsgId(): an id of no attempt that is under way.                    *)
NewFullId(S) ==
    LET used == S.uploads \cup
                {f.uploadData[1].fullId :
                    f \in {g \in AllEditFiles(S) : g.uploadData # <<>>}}
    IN  Min((1..(Cardinality(used) + 1)) \ used)

uploadEncryptedFile(S, place, data) ==
    LET fullId == NewFullId(S)
        file == editFileAt(S, place)
    IN  [setEditFile(S, place,
            [file EXCEPT !.uploadData = <<[data EXCEPT !.fullId = fullId]>>])
            EXCEPT !.uploads = @ \cup {fullId}]

(* The closure of encryptFile under crl::async: it encrypts a copy of the   *)
(* content and posts the result to the main thread.                         *)
encryptAsync(S, task) ==
    [S EXCEPT
        !.asyncTasks = @ \ {task},
        !.mainQueue = Append(@, [task EXCEPT !.kind = "encrypted"])]

(* A weak.lock() that always succeeds, to try the properties against.      *)
GuardIgnored(S, guard) == TRUE

GuardAlive(S, guard) == \E f \in AllEditFiles(S) : f.guard = guard

(* The closure posted by encryptFile with crl::on_main: weak.lock(), then   *)
(* the callback of uploadScan (index > 0) or of uploadSelfie (index 0).     *)
encryptedOnMain(S, task) ==
    LET encrypted == EncryptData(ToString(task.fileId), task.bytes,
                                 task.secret)
        result == UploadScanData(task.fileId, encrypted.hash)
    IN  IF ~GuardAlive(S, task.guard) THEN S
        ELSE IF task.index = 0
        THEN IF S.values[task.type].selfieInEdit = <<>>
             THEN Abort(S, "uploadSelfie.callback.selfieInEdit")
             ELSE uploadEncryptedFile(S, Place(task.type, 0), result)
        ELSE IF ~(task.index <= Len(S.values[task.type].scansInEdit))
        THEN Abort(S, "uploadScan.callback.Expects")
        ELSE uploadEncryptedFile(S, Place(task.type, task.index), result)

(* A scanUploadDone that leaves the attempt id on the file, to try the      *)
(* properties against.                                                      *)
scanUploadDoneKeepingId(S, fullId, partsCount) ==
    IF findEditFile(S, fullId) = {} THEN S
    ELSE LET place == CHOOSE p \in findEditFile(S, fullId) : TRUE
             file == editFileAt(S, place)
             hash == file.uploadData[1].hash
         IN  Fire(setEditFile(S, place,
                    [file EXCEPT
                        !.uploadData[1].partsCount = partsCount,
                        !.uploadData[1].hash = Empty,
                        !.fields.hash = hash,
                        !.fields.encryptedSecret =
                            EncryptValueSecret(file.fields.secret,
                                               S.secret, hash)]),
                  "scanUpdated", place.type)

scanUploadDone(S, fullId, partsCount) ==
    IF findEditFile(S, fullId) = {} THEN S
    ELSE LET place == CHOOSE p \in findEditFile(S, fullId) : TRUE
             file == editFileAt(S, place)
             hash == file.uploadData[1].hash
         IN  Fire(setEditFile(S, place,
                    [file EXCEPT
                        !.uploadData[1].partsCount = partsCount,
                        !.uploadData[1].hash = Empty,
                        !.uploadData[1].fullId = 0,
                        !.fields.hash = hash,
                        !.fields.encryptedSecret =
                            EncryptValueSecret(file.fields.secret,
                                               S.secret, hash)]),
                  "scanUpdated", place.type)

scanUploadProgress(S, fullId, offset) ==
    IF findEditFile(S, fullId) = {} THEN S
    ELSE LET place == CHOOSE p \in findEditFile(S, fullId) : TRUE
         IN  Fire(setEditFile(S, place,
                    [editFileAt(S, place) EXCEPT
                        !.uploadData[1].offset = offset]),
                  "scanUpdated", place.type)

scanUploadFail(S, fullId) == scanUploadProgress(S, fullId, -1)

----------------------------------------------------------------------------
(* Opening an edit session, and the downloads it starts.                    *)

FileKey(file) == <<file.id, file.dcId>>

committedAt(S, place) ==
    IF place.index = 0 THEN S.values[place.type].selfie[1]
    ELSE S.values[place.type].scans[place.index]

setCommitted(S, place, file) ==
    IF place.index = 0
    THEN [S EXCEPT !.values[place.type].selfie = <<file>>]
    ELSE [S EXCEPT !.values[place.type].scans[place.index] = file]

(* A loadFile that creates a loader whether the key has one or not, to try  *)
(* the properties against.                                                  *)
loadFileAgain(S, place) ==
    LET file == committedAt(S, place)
    IN  [setCommitted(S, place, [file EXCEPT !.downloadOffset = 0])
            EXCEPT !.fileLoaders = @ \cup {FileKey(file)},
                   !.loading = @ \cup {FileKey(file)},
                   !.started = Append(@, FileKey(file))]

loadFile(S, place) ==
    LET file == committedAt(S, place)
    IN  IF file.image
        THEN setCommitted(S, place,
                [file EXCEPT !.downloadOffset = file.size])
        ELSE IF FileKey(file) \in S.fileLoaders THEN S
        ELSE [setCommitted(S, place, [file EXCEPT !.downloadOffset = 0])
                EXCEPT !.fileLoaders = @ \cup {FileKey(file)},
                       !.loading = @ \cup {FileKey(file)},
                       !.started = Append(@, FileKey(file))]

RECURSIVE loadScans(_, _, _)
loadScans(S, type, index) ==
    IF index > Len(S.values[type].scans) THEN S
    ELSE loadScans(loadFile(S, Place(type, index)), type, index + 1)

startValueEdit(S, type) ==
    IF ~Ok(findValue(S, type)) THEN findValue(S, type)
    ELSE
    LET S1 == [S EXCEPT !.values[type].editScreens = @ + 1]
        S2 == loadScans(S1, type, 1)
        S3 == IF S2.values[type].selfie # <<>>
              THEN loadFile(S2, Place(type, 0)) ELSE S2
        value == S3.values[type]
        old == EditFiles(value)
        guards == FreshGuards(UsedGuards(S3, old),
                              Len(value.scans) + Len(value.selfie))
    IN  IF savingValue(S1.values[type]) THEN S1
        ELSE [DestroyFiles(S3, old) EXCEPT
                !.values[type].scansInEdit =
                    [i \in 1..Len(value.scans) |->
                        EditFile(value.scans[i], <<>>, guards[i])],
                !.values[type].selfieInEdit =
                    [i \in 1..Len(value.selfie) |->
                        EditFile(value.selfie[i], <<>>,
                                 guards[Len(value.scans) + i])],
                !.values[type].data.parsedInEdit = value.data.parsed]

----------------------------------------------------------------------------
(* What a loader reports: mtpFileLoader::progress and ::failed.             *)

CommittedPlaces(S) ==
    UNION {{Place(t, i) : i \in 1..Len(S.values[t].scans)}
              \cup {Place(t, 0) : i \in 1..Len(S.values[t].selfie)} :
           t \in DOMAIN S.values}

(* findFile: the places that match, none or one                             *)
findFile(S, key) ==
    LET found == {p \in CommittedPlaces(S) :
                    FileKey(committedAt(S, p)) = key}
    IN  IF found = {} THEN {} ELSE {FirstPlace(found)}

(* findEditFile(const FileKey &): the places that match, none or one        *)
findEditFileByKey(S, key) ==
    LET found == {p \in Places(S) : FileKey(editFileAt(S, p).fields) = key}
    IN  IF found = {} THEN {} ELSE {FirstPlace(found)}

(* The staged file with the key takes over the offset of the download,     *)
(* and scanUpdated fires for it.                                            *)
mirrorOffset(S, key, offset) ==
    IF findEditFileByKey(S, key) = {} THEN S
    ELSE LET place == CHOOSE p \in findEditFileByKey(S, key) : TRUE
         IN  Fire(setEditFile(S, place,
                    [editFileAt(S, place) EXCEPT
                        !.fields.downloadOffset = offset]),
                  "scanUpdated", place.type)

fileLoadProgress(S, key, offset) ==
    IF findFile(S, key) = {} THEN S
    ELSE LET place == CHOOSE p \in findFile(S, key) : TRUE
             file == [committedAt(S, place) EXCEPT
                        !.downloadOffset = offset]
         IN  mirrorOffset(setCommitted(S, place, file), key, offset)

fileLoadFail(S, key) ==
    IF findFile(S, key) = {} THEN S
    ELSE LET place == CHOOSE p \in findFile(S, key) : TRUE
             file == [committedAt(S, place) EXCEPT !.downloadOffset = -1]
         IN  mirrorOffset(setCommitted(S, place, file), key, -1)

(* The end of a fileLoadDone whose bytes decrypted.                         *)
fileLoaded(S, key) ==
    LET place == CHOOSE p \in findFile(S, key) : TRUE
        found == committedAt(S, place)
        S1 == setCommitted(S, place,
                [found EXCEPT !.downloadOffset = found.size,
                              !.image = TRUE])
    IN  IF findEditFileByKey(S1, key) = {} THEN S1
        ELSE LET edit == CHOOSE p \in findEditFileByKey(S1, key) : TRUE
             IN  Fire(setEditFile(S1, edit,
                        [editFileAt(S1, edit) EXCEPT
                            !.fields.image = TRUE,
                            !.fields.downloadOffset = found.size]),
                      "scanUpdated", edit.type)

(* A fileLoadDone that does not look at what the decryption gave, to try    *)
(* the properties against.                                                  *)
fileLoadDoneUnchecked(S, key, bytes) ==
    IF findFile(S, key) = {} THEN S ELSE fileLoaded(S, key)

fileLoadDone(S, key, bytes) ==
    IF findFile(S, key) = {} THEN S
    ELSE LET place == CHOOSE p \in findFile(S, key) : TRUE
             found == committedAt(S, place)
         IN  IF DecryptData(bytes, found.hash, found.secret) = Empty
             THEN fileLoadFail(S, key)
             ELSE fileLoaded(S, key)

----------------------------------------------------------------------------
(* Submitting the form.                                                     *)

DocumentTypes == {"Passport"}

(* ComputeScopes: a scope for each required type that is not a document,    *)
(* the required documents with the personal details.                        *)
ComputeScopes(S) ==
    LET fields == SelectSeq(S.formRequest, LAMBDA t : t \notin DocumentTypes)
        documents == SelectSeq(S.formRequest, LAMBDA t : t \in DocumentTypes)
    IN  [i \in 1..Len(fields) |->
            [fields |-> fields[i],
             documents |-> IF fields[i] = "PersonalDetails"
                           THEN documents ELSE <<>>]]

(* ComputeScopeRowReadyString: empty unless the scope has its content.      *)
ComputeScopeRowReadyString(S, scope) ==
    IF /\ ~MapEmpty(S.values[scope.fields].data.parsed)
       /\ \/ scope.documents = <<>>
          \/ \E i \in 1..Len(scope.documents) :
                /\ S.values[scope.documents[i]].scans # <<>>
                /\ (S.selfieRequired =>
                        S.values[scope.documents[i]].selfie # <<>>)
    THEN "ready"
    ELSE ""

ValueCredentialsKey(type) ==
    CASE type = "PersonalDetails" -> "personal_details"
      [] type = "Passport" -> "passport"
      [] type \in {"Phone", "Email"} -> ""

Base64(bytes) == <<"base64">> \o bytes

GetJSONFromFile(file) ==
    [file_hash |-> Base64(file.hash), secret |-> Base64(file.secret)]

(* An object that carries the decrypted fields as well, to try the          *)
(* properties against.                                                      *)
ValueJSONWithFields(S, value) ==
    [data |-> IF ~MapEmpty(value.data.parsed)
              THEN <<[data_hash |-> Base64(value.data.hash),
                      secret |-> Base64(MapBytes(value.data.parsed))]>>
              ELSE <<>>,
     files |-> [i \in 1..Len(value.scans) |->
                    GetJSONFromFile(value.scans[i])],
     selfie |-> IF S.selfieRequired /\ value.selfie # <<>>
                THEN <<GetJSONFromFile(value.selfie[1])>> ELSE <<>>]

(* addValueToJSON's object; a key that is not inserted is an empty list.    *)
ValueJSON(S, value) ==
    [data |-> IF ~MapEmpty(value.data.parsed)
              THEN <<[data_hash |-> Base64(value.data.hash),
                      secret |-> Base64(value.data.secret)]>>
              ELSE <<>>,
     files |-> [i \in 1..Len(value.scans) |->
                    GetJSONFromFile(value.scans[i])],
     selfie |-> IF S.selfieRequired /\ value.selfie # <<>>
                THEN <<GetJSONFromFile(value.selfie[1])>> ELSE <<>>]

(* The values prepareFinalData adds for one scope that is ready.            *)
ScopeValues(S, scope) ==
    LET withScans == {i \in 1..Len(scope.documents) :
                        S.values[scope.documents[i]].scans # <<>>}
    IN  <<scope.fields>> \o
        (IF withScans = {} THEN <<>>
         ELSE <<scope.documents[Min(withScans)]>>)

RECURSIVE AddedValues(_, _)
AddedValues(S, scopes) ==
    IF scopes = <<>> THEN <<>>
    ELSE (IF ComputeScopeRowReadyString(S, Head(scopes)) = "" THEN <<>>
          ELSE ScopeValues(S, Head(scopes)))
         \o AddedValues(S, Tail(scopes))

(* prepareFinalData's loop clears the error of a scope that is not ready.    *)
RECURSIVE clearScopeErrors(_, _)
clearScopeErrors(S, scopes) ==
    IF scopes = <<>> THEN S
    ELSE clearScopeErrors(
            IF ComputeScopeRowReadyString(S, Head(scopes)) = ""
            THEN [S EXCEPT !.values[Head(scopes).fields].error = ""]
            ELSE S,
            Tail(scopes))

prepareFinalData(S) ==
    LET scopes == ComputeScopes(S)
        hasErrors == \E i \in 1..Len(scopes) :
                        ComputeScopeRowReadyString(S, scopes[i]) = ""
        added == AddedValues(S, scopes)
        keyed == SelectSeq(added, LAMBDA t : ValueCredentialsKey(t) # "")
    IN  IF hasErrors THEN [hashes |-> <<>>, credentials |-> <<>>]
        ELSE [hashes |-> [i \in 1..Len(added) |->
                            <<added[i], S.values[added[i]].submitHash>>],
              credentials |->
                <<[secure_data |->
                        [i \in 1..Len(keyed) |->
                            [key |-> ValueCredentialsKey(keyed[i]),
                             object |-> ValueJSON(S, S.values[keyed[i]])]],
                   payload |-> S.requestPayload]>>]

submit(S) ==
    IF S.submitRequestId # 0 THEN [S EXCEPT !.returned = "true"]
    ELSE LET prepared == prepareFinalData(S)
             S1 == clearScopeErrors(S, ComputeScopes(S))
         IN  IF prepared.hashes = <<>> THEN [S1 EXCEPT !.returned = "false"]
             ELSE [Send(S1, Request("AcceptAuthorization", "", prepared))
                    EXCEPT !.submitRequestId = NewRequestId(S1),
                           !.returned = "true"]

(* submit's .done opens the callback url, its .fail shows a box.            *)
submitDone(S) == S

submitFail(S) == S

----------------------------------------------------------------------------
(* What the remote authority answers.                                       *)

NoRemoteSecret == [salt |-> "", secret |-> Empty]

RemoteSecret(name, password) ==
    [salt |-> "salt-" \o name,
     secret |-> EncryptSecureSecret("salt-" \o name, MasterSecret(name),
                                    password)]

ServerFile(file) ==
    [id |-> file.id, dcId |-> file.dcId, size |-> file.size,
     hash |-> file.hash, secret |-> file.secret]

(* The secureValue a save is answered with: what the request stored.        *)
ServerValue(type, data) ==
    [type |-> type,
     hash |-> <<"submit-hash", type>>,
     hasData |-> data.flags.data,
     data |-> data.data,
     hasFiles |-> data.flags.files,
     files |-> [i \in 1..Len(data.files) |-> ServerFile(data.files[i])],
     hasSelfie |-> data.flags.selfie,
     selfie |-> [i \in 1..Len(data.selfie) |-> ServerFile(data.selfie[i])],
     hasPlain |-> data.flags.plain,
     plain |-> data.plain]

ThePassword == "pw"

(* What the remote authority stores of a value that was saved before: its   *)
(* fields under the value's secret, its files, all wrapped under `master`.  *)
StoredData(type, fields, master) ==
    LET encrypted == EncryptData(type, SerializeData(fields),
                                 ItemSecret(type))
    IN  [data |-> encrypted.bytes,
         hash |-> encrypted.hash,
         secret |-> EncryptValueSecret(ItemSecret(type), master,
                                       encrypted.hash)]

StoredFile(id, master) ==
    LET hash == DataHash(ToString(id), <<"image">>)
    IN  [id |-> id, dcId |-> 1, size |-> 1, hash |-> hash,
         secret |-> EncryptValueSecret(ItemSecret(ToString(id)), master,
                                       hash)]

StoredDocument(type, fields, scans, selfie, master) ==
    [type |-> type,
     hash |-> <<"submit-hash", type>>,
     hasData |-> TRUE,
     data |-> StoredData(type, fields, master),
     hasFiles |-> scans > 0,
     files |-> [i \in 1..scans |-> StoredFile(i, master)],
     hasSelfie |-> selfie,
     selfie |-> IF selfie THEN <<StoredFile(scans + 1, master)>> ELSE <<>>,
     hasPlain |-> FALSE,
     plain |-> Absent]

StoredPlain(type, text) ==
    [type |-> type,
     hash |-> <<"submit-hash", type>>,
     hasData |-> FALSE,
     data |-> NoSecureData,
     hasFiles |-> FALSE,
     files |-> <<>>,
     hasSelfie |-> FALSE,
     selfie |-> <<>>,
     hasPlain |-> TRUE,
     plain |-> text]

----------------------------------------------------------------------------
(* The state after FormController::FormController.                          *)

InitWith(payloads, remotes) ==
    /\ values = <<>>
    /\ formRequest = <<>>
    /\ selfieRequired = FALSE
    /\ requestPayload \in payloads
    /\ bot = FALSE
    /\ shown = <<>>
    /\ fileLoaders = {}
    /\ passwordSalt = ""
    /\ secret = Empty
    /\ secretId = 0
    /\ secretCallbacks = <<>>
    /\ saveSecretRequestId = 0
    /\ passwordCheckRequestId = 0
    /\ submitRequestId = 0
    /\ formRequestId = 0
    /\ passwordRequestId = 0
    /\ network = <<>>
    /\ remoteSecret \in remotes
    /\ mainQueue = <<>>
    /\ asyncTasks = {}
    /\ uploads = {}
    /\ loading = {}
    /\ started = <<>>
    /\ wasDeleted = FALSE
    /\ cancelled = {}
    /\ fired = <<>>
    /\ sent = <<>>
    /\ toasts = <<>>
    /\ op = Operation("FormController", "", 0, <<>>)
    /\ returned = ""
    /\ failure = "none"

----------------------------------------------------------------------------
(* The steps: a call of the view, the answer to an open request, a closure  *)
(* that one of the threads runs.                                            *)

FormVisible == \E i \in 1..Len(shown) : shown[i] = "form"

Editing(type) ==
    /\ Running
    /\ FormVisible
    /\ type \in DOMAIN values
    /\ values[type].editScreens > 0

Show ==
    /\ Running
    /\ op.name = "FormController"
    /\ Commit(show(Begin("show", "", 0, <<>>)))

FormDone(result) ==
    /\ Running
    /\ \E id \in Open("GetAuthorizationForm", "") :
          Commit(formDone(Close(Begin("formDone", "", id, result), id),
                          result))

FormFail ==
    /\ Running
    /\ \E id \in Open("GetAuthorizationForm", "") :
          Commit(formFail(Close(Begin("formFail", "", id, <<>>), id)))

(* requestPassword's fail handler is formFail as well.                      *)
PasswordFail ==
    /\ Running
    /\ \E id \in Open("GetPassword", "") :
          Commit(formFail(Close(Begin("formFail", "", id, <<>>), id)))

PasswordDone(salt) ==
    /\ Running
    /\ \E id \in Open("GetPassword", "") :
          Commit(passwordDone(Close(Begin("passwordDone", "", id, salt), id),
                              salt))

(* The view asks for the password until the form is on screen.             *)
SubmitPassword(password) ==
    /\ Running
    /\ \E i \in 1..Len(shown) : shown[i] = "askPassword"
    /\ ~FormVisible
    /\ Commit(submitPassword(Begin("submitPassword", "", 0, password),
                             password))

(* The view hands over the password once more, whatever is on screen.       *)
ResubmitPassword(password) ==
    /\ Running
    /\ \E i \in 1..Len(shown) : shown[i] = "askPassword"
    /\ Commit(submitPassword(Begin("submitPassword", "", 0, password),
                             password))

PasswordCheckDone ==
    /\ Running
    /\ \E id \in Open("GetPasswordSettings", "") :
          /\ network[id].payload = ThePassword
          /\ Commit(passwordCheckDone(
                        Close(Begin("passwordCheckDone", "", id, <<>>), id),
                        remoteSecret.salt, remoteSecret.secret,
                        network[id].payload))

PasswordCheckFail ==
    /\ Running
    /\ \E id \in Open("GetPasswordSettings", "") :
          /\ network[id].payload # ThePassword
          /\ Commit(passwordCheckFail(
                        Close(Begin("passwordCheckFail", "", id, <<>>), id),
                        "PASSWORD_HASH_INVALID"))

SaveSecretDone ==
    /\ Running
    /\ \E id \in Open("UpdatePasswordSettings", "") :
          LET captured == network[id].payload
              S == [Close(Begin("saveSecretDone", "", id, <<>>), id) EXCEPT
                        !.remoteSecret =
                            [salt |-> captured.salt,
                             secret |-> captured.encryptedSecret]]
          IN  Commit(saveSecretDone(S, captured))

SaveSecretFail ==
    /\ Running
    /\ \E id \in Open("UpdatePasswordSettings", "") :
          Commit(saveSecretFail(
                    Close(Begin("saveSecretFail", "", id, <<>>), id)))

StartValueEdit(type) ==
    /\ Running
    /\ FormVisible
    /\ type \in DOMAIN values
    /\ values[type].editScreens < MaxEditScreens
    /\ Commit(startValueEdit(Begin("startValueEdit", type, 0, <<>>), type))

CancelValueEdit(type) ==
    /\ Editing(type)
    /\ Commit(cancelValueEdit(Begin("cancelValueEdit", type, 0, <<>>), type))

SaveValueEdit(type, data) ==
    /\ Editing(type)
    /\ Len(secretCallbacks) < MaxQueued
    /\ Len(mainQueue) < MaxQueued
    /\ Commit(saveValueEdit(Begin("saveValueEdit", type, 0, data), type,
                            data))

DeleteValueEdit(type) ==
    /\ Editing(type)
    /\ Commit(deleteValueEdit(Begin("deleteValueEdit", type, 0, <<>>), type))

(* The main thread runs the closure that was posted first.                  *)
RunMain ==
    /\ Running
    /\ mainQueue # <<>>
    /\ LET task == Head(mainQueue)
           S == [Begin(IF task.kind = "saveUnchanged"
                       THEN "saveUnchangedDone" ELSE "encryptedOnMain",
                       task.type, 0, task)
                    EXCEPT !.mainQueue = Tail(@)]
       IN  Commit(IF task.kind = "saveUnchanged"
                  THEN saveUnchangedDone(S, task.type)
                  ELSE encryptedOnMain(S, task))

EncryptAsync ==
    /\ Running
    /\ \E task \in asyncTasks :
          Commit(encryptAsync(Begin("encryptAsync", task.type, 0, task),
                              task))

SaveValueDone(type) ==
    /\ Running
    /\ \E id \in Open("SaveSecureValue", type) :
          LET result == ServerValue(type, network[id].payload)
          IN  Commit(saveValueDone(
                        Close(Begin("saveValueDone", type, id, result), id),
                        type, result))

SaveValueFail(type, error) ==
    /\ Running
    /\ \E id \in Open("SaveSecureValue", type) :
          Commit(saveValueFail(
                    Close(Begin("saveValueFail", type, id, error), id),
                    type, error))

DeleteValueDone(type) ==
    /\ Running
    /\ \E id \in Open("DeleteSecureValue", type) :
          Commit(deleteValueDone(
                    Close(Begin("deleteValueDone", type, id, <<>>), id),
                    type))

DeleteValueFail(type) ==
    /\ Running
    /\ \E id \in Open("DeleteSecureValue", type) :
          Commit(deleteValueFail(
                    Close(Begin("deleteValueFail", type, id, <<>>), id),
                    type))

PhoneCodeDone(type, sentCodeType, length, next) ==
    /\ Running
    /\ \E id \in Open("SendVerifyPhoneCode", type) :
          Commit(phoneCodeDone(
                    Close(Begin("phoneCodeDone", type, id,
                                <<sentCodeType, length, next>>), id),
                    type, sentCodeType, length, next))

PhoneCodeFail(type) ==
    /\ Running
    /\ \E id \in Open("SendVerifyPhoneCode", type) :
          Commit(phoneCodeFail(
                    Close(Begin("phoneCodeFail", type, id, <<>>), id), type))

EmailCodeDone(type, length) ==
    /\ Running
    /\ \E id \in Open("SendVerifyEmailCode", type) :
          Commit(emailCodeDone(
                    Close(Begin("emailCodeDone", type, id, length), id),
                    type, length))

EmailCodeFail(type) ==
    /\ Running
    /\ \E id \in Open("SendVerifyEmailCode", type) :
          Commit(emailCodeFail(
                    Close(Begin("emailCodeFail", type, id, <<>>), id), type))

(* The view offers the code field once verificationNeeded has fired.        *)
Verify(type, code) ==
    /\ Running
    /\ type \in DOMAIN values
    /\ values[type].verification.codeLength # 0
    /\ Commit(verify(Begin("verify", type, 0, code), type, code))

VerifyDone(type) ==
    /\ Running
    /\ \E id \in Open("VerifyPhone", type) \cup Open("VerifyEmail", type) :
          Commit(verifyDone(
                    Close(Begin("verifyDone", type, id, <<>>), id), type))

VerifyFail(type, error) ==
    /\ Running
    /\ \E id \in Open("VerifyPhone", type) \cup Open("VerifyEmail", type) :
          Commit(verifyFail(
                    Close(Begin("verifyFail", type, id, error), id),
                    type, error))

CancelValueVerification(type) ==
    /\ Editing(type)
    /\ Commit(cancelValueVerification(
                Begin("cancelValueVerification", type, 0, <<>>), type))

UploadScan(type, content) ==
    /\ Editing(type)
    /\ Commit(uploadScan(Begin("uploadScan", type, 0, content), type,
                         content))

UploadSelfie(type, content) ==
    /\ Editing(type)
    /\ Commit(uploadSelfie(Begin("uploadSelfie", type, 0, content), type,
                           content))

DeleteScan(type, scanIndex) ==
    /\ Editing(type)
    /\ scanIndex \in 1..Len(values[type].scansInEdit)
    /\ Commit(deleteScan(
                [Begin("deleteScan", type, 0, scanIndex) EXCEPT
                    !.wasDeleted =
                        values[type].scansInEdit[scanIndex].deleted],
                type, scanIndex))

RestoreScan(type, scanIndex) ==
    /\ Editing(type)
    /\ scanIndex \in 1..Len(values[type].scansInEdit)
    /\ Commit(restoreScan(
                [Begin("restoreScan", type, 0, scanIndex) EXCEPT
                    !.wasDeleted =
                        values[type].scansInEdit[scanIndex].deleted],
                type, scanIndex))

DeleteSelfie(type) ==
    /\ Editing(type)
    /\ values[type].selfieInEdit # <<>>
    /\ Commit(selfieDeleteRestore(Begin("deleteSelfie", type, 0, <<>>),
                                  type, TRUE))

RestoreSelfie(type) ==
    /\ Editing(type)
    /\ values[type].selfieInEdit # <<>>
    /\ Commit(selfieDeleteRestore(Begin("restoreSelfie", type, 0, <<>>),
                                  type, FALSE))

(* The uploader reports on an attempt that is under way.                    *)
ScanUploadDone(partsCount) ==
    /\ Running
    /\ \E fullId \in uploads :
          Commit(scanUploadDone(
                    [Begin("scanUploadDone", "", 0, fullId) EXCEPT
                        !.uploads = @ \ {fullId}],
                    fullId, partsCount))

ScanUploadProgress(offset) ==
    /\ Running
    /\ \E fullId \in uploads :
          Commit(scanUploadProgress(
                    Begin("scanUploadProgress", "", 0, fullId),
                    fullId, offset))

ScanUploadFail ==
    /\ Running
    /\ \E fullId \in uploads :
          Commit(scanUploadFail(
                    [Begin("scanUploadFail", "", 0, fullId) EXCEPT
                        !.uploads = @ \ {fullId}],
                    fullId))

(* A loader that has not finished reports its end, its progress or its     *)
(* failure.                                                                 *)
FileLoadDone(key, bytes) ==
    /\ Running
    /\ key \in loading
    /\ Commit(fileLoadDone(
                [Begin("fileLoadDone", "", 0, <<key, bytes>>) EXCEPT
                    !.loading = @ \ {key}],
                key, bytes))

FileLoadProgress(key, offset) ==
    /\ Running
    /\ key \in loading
    /\ Commit(fileLoadProgress(
                Begin("fileLoadProgress", "", 0, <<key, offset>>),
                key, offset))

FileLoadFail(key) ==
    /\ Running
    /\ key \in loading
    /\ Commit(fileLoadFail(
                [Begin("fileLoadFail", "", 0, <<key>>) EXCEPT
                    !.loading = @ \ {key}],
                key))

Submit ==
    /\ Running
    /\ FormVisible
    /\ Commit(submit(Begin("submit", "", 0, <<>>)))

SubmitDone ==
    /\ Running
    /\ \E id \in Open("AcceptAuthorization", "") :
          Commit(submitDone(Close(Begin("submitDone", "", id, <<>>), id)))

SubmitFail ==
    /\ Running
    /\ \E id \in Open("AcceptAuthorization", "") :
          Commit(submitFail(Close(Begin("submitFail", "", id, <<>>), id)))

----------------------------------------------------------------------------
(* The master secret and the saves that wait for it: a form that requires   *)
(* two encrypted values of a user who has no secret stored yet.             *)

SecretForm ==
    [values |-> <<>>, required |-> <<"PersonalDetails", "Passport">>,
     selfieRequired |-> FALSE, bot |-> TRUE]

SecretMaps == {[ValueMap EXCEPT !["name"] = "a"]}

InitSecret == InitWith({"payload"}, {NoRemoteSecret})

NextSecret ==
    \/ Show
    \/ FormDone(SecretForm)
    \/ PasswordDone("salt")
    \/ SubmitPassword(ThePassword)
    \/ PasswordCheckDone
    \/ SaveSecretDone
    \/ SaveSecretFail
    \/ \E type \in EncryptedTypes : StartValueEdit(type)
    \/ \E type \in EncryptedTypes : CancelValueEdit(type)
    \/ \E type \in EncryptedTypes, data \in SecretMaps :
          SaveValueEdit(type, data)
    \/ RunMain
    \/ \E type \in EncryptedTypes : SaveValueDone(type)
    \/ \E type \in EncryptedTypes : SaveValueFail(type, "INTERNAL")

SpecSecret == InitSecret /\ [][NextSecret]_vars

(* C1: a save of an encrypted value requested while the secret is absent    *)
(* sends nothing and is queued, and the step in which the secret arrives    *)
(* replays the queue once, in the order of the requests: it completes, it   *)
(* empties the queue, and the requests it sends are the save requests of    *)
(* the queued values, one each, in that order.                              *)
C1_QueuedSavesReplayedOnceInOrder ==
    [][/\ (/\ op'.name = "saveValueEdit"
           /\ secret = Empty
           /\ isEncryptedValue(op'.type))
          => /\ sent' = <<>>
             /\ \/ secretCallbacks' = secretCallbacks
                \/ secretCallbacks' = Append(secretCallbacks, op'.type)
       /\ op'.name = "saveSecretDone"
          => /\ failure' = "none"
             /\ secret' # Empty
             /\ secretCallbacks' = <<>>
             /\ Len(sent') = Len(secretCallbacks)
             /\ \A i \in 1..Len(secretCallbacks) :
                   /\ sent'[i].kind = "SaveSecureValue"
                   /\ sent'[i].type = secretCallbacks[i]]_vars

OpenSaves(type) ==
    Open("SaveSecureValue", type) \cup Open("DeleteSecureValue", type)

(* C2: every value has at most one save or delete request open, the one     *)
(* its saveRequestId names, and sendSaveRequest is never entered for a      *)
(* value whose saveRequestId is not 0.                                      *)
C2_OneOutstandingSavePerValue ==
    /\ failure # "sendSaveRequest.Expects"
    /\ \A type \in DOMAIN values :
          /\ Cardinality(OpenSaves(type)) <= 1
          /\ OpenSaves(type) \subseteq {values[type].saveRequestId}

----------------------------------------------------------------------------
(* Verification: a form that requires a phone or an email of a user whose   *)
(* secret the remote authority stores.                                      *)

VerifyForms ==
    {[values |-> <<>>, required |-> <<type>>, selfieRequired |-> FALSE,
      bot |-> TRUE] : type \in PlainTypes}

VerifyMaps == {[ValueMap EXCEPT !["value"] = "a"]}

Codes ==
    {<<>>, <<" ">>, <<"1">>, <<"1", " ">>, <<"1", "2">>,
     <<" ", "1", "2", " ">>}

CodeLength == 2

SaveErrors ==
    {"PHONE_VERIFICATION_NEEDED", "EMAIL_VERIFICATION_NEEDED", "INTERNAL"}

VerifyErrors == {"PHONE_CODE_INVALID", "CODE_INVALID", "INTERNAL"}

InitVerify == InitWith({"payload"}, {RemoteSecret("srv", ThePassword)})

NextVerify ==
    \/ Show
    \/ \E form \in VerifyForms : FormDone(form)
    \/ PasswordDone("salt")
    \/ SubmitPassword(ThePassword)
    \/ PasswordCheckDone
    \/ \E type \in PlainTypes : StartValueEdit(type)
    \/ \E type \in PlainTypes : CancelValueEdit(type)
    \/ \E type \in PlainTypes, data \in VerifyMaps :
          SaveValueEdit(type, data)
    \/ RunMain
    \/ \E type \in PlainTypes : SaveValueDone(type)
    \/ \E type \in PlainTypes, error \in SaveErrors :
          SaveValueFail(type, error)
    \/ \E type \in PlainTypes, sentCodeType \in {"Sms", "Call", "App"},
          length \in {0, CodeLength}, next \in BOOLEAN :
          PhoneCodeDone(type, sentCodeType, length, next)
    \/ \E type \in PlainTypes : PhoneCodeFail(type)
    \/ \E type \in PlainTypes, length \in {0, CodeLength} :
          EmailCodeDone(type, length)
    \/ \E type \in PlainTypes : EmailCodeFail(type)
    \/ \E type \in PlainTypes, code \in Codes : Verify(type, code)
    \/ \E type \in PlainTypes : VerifyDone(type)
    \/ \E type \in PlainTypes, error \in VerifyErrors :
          VerifyFail(type, error)
    \/ \E type \in PlainTypes : CancelValueVerification(type)

SpecVerify == InitVerify /\ [][NextVerify]_vars

FailureHandlers ==
    {"saveValueFail", "deleteValueFail", "phoneCodeFail", "emailCodeFail",
     "verifyFail"}

(* C4: the handler of a failed request of a value's save flow completes     *)
(* (no check of valueEditFailed fails in it) and leaves neither             *)
(* saveRequestId nor verification.requestId naming a request that is no     *)
(* longer open, so the value is not stuck saving.                           *)
C4_FailureHandlersLeaveValueUnstuck ==
    [][op'.name \in FailureHandlers
          => /\ failure' = "none"
             /\ values'[op'.type].saveRequestId
                    \in {0} \cup DOMAIN network'
             /\ values'[op'.type].verification.requestId
                    \in {0} \cup DOMAIN network']_vars

(* The code without the spaces at its ends.                                 *)
Stripped(code) ==
    LET inked == {i \in 1..Len(code) : code[i] # " "}
    IN  IF inked = {} THEN <<>>
        ELSE SubSeq(code, Min(inked),
                    CHOOSE i \in inked : \A j \in inked : j <= i)

(* C7: a verify whose trimmed code is empty, or of a length other than a    *)
(* positive codeLength, sends no request: verification.requestId stays 0,   *)
(* verification.error is the wrong-code message and verificationUpdate is   *)
(* fired.                                                                   *)
C7_WrongLengthCodeIsNotSent ==
    [][(/\ op'.name = "verify"
        /\ values[op'.type].verification.requestId = 0
        /\ \/ Stripped(op'.arg) = <<>>
           \/ /\ values[op'.type].verification.codeLength > 0
              /\ Len(Stripped(op'.arg))
                    # values[op'.type].verification.codeLength)
          => /\ failure' = "none"
             /\ sent' = <<>>
             /\ network' = network
             /\ values'[op'.type].verification.requestId = 0
             /\ values'[op'.type].verification.error = lng_signin_wrong_code
             /\ \E i \in 1..Len(fired') :
                    fired'[i] = <<"verificationUpdate", op'.type>>]_vars

C7_Witness ==
    /\ op.name = "verify"
    /\ Stripped(op.arg) # <<>>
    /\ values[op.type].verification.codeLength > 0
    /\ Len(Stripped(op.arg)) # values[op.type].verification.codeLength
    /\ values[op.type].verification.error = lng_signin_wrong_code
    /\ sent = <<>>

OpenVerifies(type) == Open("VerifyPhone", type) \cup Open("VerifyEmail", type)

(* C8: a verify on a value whose verification request is outstanding sends  *)
(* nothing and changes nothing of the value, its error text included, and   *)
(* a value never has two verify requests open.                              *)
C8_VerifyRejectedWhileOutstanding ==
    /\ [](\A type \in DOMAIN values : Cardinality(OpenVerifies(type)) <= 1)
    /\ [][(/\ op'.name = "verify"
           /\ values[op'.type].verification.requestId # 0)
             => /\ failure' = "none"
                /\ sent' = <<>>
                /\ fired' = <<>>
                /\ network' = network
                /\ values' = values]_vars

C8_Witness ==
    /\ op.name = "verify"
    /\ sent = <<>>
    /\ fired = <<>>
    /\ values[op.type].verification.requestId \in OpenVerifies(op.type)

(* C9: the step of a successful verify request sends the plain-text save    *)
(* of the value and resets its verification to the initial state, with      *)
(* verificationUpdate fired; after it the value is saving because of the    *)
(* save request alone.                                                      *)
C9_VerifySuccessSavesAndClears ==
    [][op'.name = "verifyDone"
          => /\ failure' = "none"
             /\ Len(sent') = 1
             /\ sent'[1].kind = "SaveSecureValue"
             /\ sent'[1].type = op'.type
             /\ sent'[1].payload.flags = [NoFlags EXCEPT !.plain = TRUE]
             /\ sent'[1].payload.plain
                    = values[op'.type].data.parsedInEdit["value"]
             /\ values'[op'.type].verification = Verification
             /\ \E i \in 1..Len(fired') :
                    fired'[i] = <<"verificationUpdate", op'.type>>
             /\ values'[op'.type].saveRequestId \in DOMAIN network'
             /\ network'[values'[op'.type].saveRequestId] = sent'[1]
             /\ \A id \in DOMAIN network' :
                    network'[id].type = op'.type
                        => network'[id].kind = "SaveSecureValue"]_vars

C9_Witness ==
    /\ op.name = "verifyDone"
    /\ Len(sent) = 1
    /\ sent[1].kind = "SaveSecureValue"
    /\ values[op.type].verification = Verification
    /\ values[op.type].saveRequestId \in DOMAIN network

----------------------------------------------------------------------------
(* Editing a value that is stored: a passport with the fields name "a" and  *)
(* an empty value, and one scan.                                            *)

EditForm ==
    [values |-> <<StoredDocument("Passport",
                                 [ValueMap EXCEPT !["name"] = "a",
                                                  !["value"] = ""],
                                 1, FALSE, MasterSecret("srv"))>>,
     required |-> <<"Passport">>, selfieRequired |-> FALSE, bot |-> TRUE]

EditMaps ==
    {[ValueMap EXCEPT !["name"] = "a", !["value"] = ""],
     [ValueMap EXCEPT !["name"] = "a"],
     [ValueMap EXCEPT !["name"] = "b", !["value"] = ""]}

InitEdit == InitWith({"payload"}, {RemoteSecret("srv", ThePassword)})

NextEdit ==
    \/ Show
    \/ FormDone(EditForm)
    \/ PasswordDone("salt")
    \/ SubmitPassword(ThePassword)
    \/ PasswordCheckDone
    \/ StartValueEdit("Passport")
    \/ CancelValueEdit("Passport")
    \/ \E data \in EditMaps : SaveValueEdit("Passport", data)
    \/ \E scanIndex \in 1..MaxStaged : DeleteScan("Passport", scanIndex)
    \/ \E scanIndex \in 1..MaxStaged : RestoreScan("Passport", scanIndex)
    \/ RunMain
    \/ SaveValueDone("Passport")
    \/ SaveValueFail("Passport", "INTERNAL")
    \/ DeleteValueEdit("Passport")
    \/ DeleteValueFail("Passport")

SpecEdit == InitEdit /\ [][NextEdit]_vars

(* The staged files are the committed ones, none of them deleted.           *)
FilesAsCommitted(value) ==
    /\ Len(value.scansInEdit) = Len(value.scans)
    /\ \A i \in 1..Len(value.scansInEdit) :
          /\ value.scansInEdit[i].fields.id = value.scans[i].id
          /\ value.scansInEdit[i].uploadData = <<>>
          /\ ~value.scansInEdit[i].deleted
    /\ Len(value.selfieInEdit) = Len(value.selfie)
    /\ \A i \in 1..Len(value.selfieInEdit) :
          /\ value.selfieInEdit[i].fields.id = value.selfie[i].id
          /\ value.selfieInEdit[i].uploadData = <<>>
          /\ ~value.selfieInEdit[i].deleted

(* Every committed field is in the new map with its text, and a field the   *)
(* committed map lacks is absent or empty in the new one.                   *)
FieldsAsCommitted(value, data) ==
    \A key \in FieldKeys :
        IF value.data.parsed[key] = Absent
        THEN data[key] \in {Absent, ""}
        ELSE data[key] = value.data.parsed[key]

(* The maps are equal when an absent field counts as an empty one.          *)
FieldsAlike(value, data) ==
    \A key \in FieldKeys :
        (IF value.data.parsed[key] = Absent
         THEN "" ELSE value.data.parsed[key])
        = (IF data[key] = Absent THEN "" ELSE data[key])

UnchangedClosures(type) ==
    {i \in 1..Len(mainQueue) : mainQueue[i] = SaveUnchanged(type)}

(* What C3 promises of a save whose edit is `same` as the committed state:  *)
(* it sends nothing and posts one closure; until the closure runs nothing   *)
(* else finishes the save; the closure fires valueSaveFinished once and     *)
(* leaves saveRequestId 0 and no staged state.                              *)
OneClosurePerUnchangedSave ==
    \A type \in DOMAIN values :
        Cardinality(UnchangedClosures(type))
            = IF values[type].saveRequestId = -1 THEN 1 ELSE 0

SaveOfUnchangedEdit(same(_, _)) ==
          /\ (/\ op'.name = "saveValueEdit"
              /\ ~savingValue(values[op'.type])
              /\ submitRequestId = 0
              /\ FilesAsCommitted(values[op'.type])
              /\ same(values[op'.type], op'.arg))
             => /\ failure' = "none"
                /\ sent' = <<>>
                /\ network' = network
                /\ fired' = <<>>
                /\ values'[op'.type].saveRequestId = -1
                /\ mainQueue' = Append(mainQueue, SaveUnchanged(op'.type))
          /\ (/\ op'.name # "saveUnchangedDone"
              /\ op'.type \in DOMAIN values
              /\ values[op'.type].saveRequestId = -1)
             => /\ sent' = <<>>
                /\ \A i \in 1..Len(fired') :
                      fired'[i] # <<"valueSaveFinished", op'.type>>
                /\ values'[op'.type].saveRequestId = -1
          /\ op'.name = "saveUnchangedDone"
             => /\ failure' = "none"
                /\ sent' = <<>>
                /\ fired' = <<<<"valueSaveFinished", op'.type>>>>
                /\ values'[op'.type].saveRequestId = 0
                /\ values'[op'.type].scansInEdit = <<>>
                /\ values'[op'.type].selfieInEdit = <<>>
                /\ values'[op'.type].data.parsedInEdit = ValueMap

(* C3, as amended: a saveValueEdit on a value that is not saving, with no   *)
(* submission in flight, whose staged files are the committed ones and      *)
(* whose new map has every committed field with its text and only absent    *)
(* or empty fields beside them, sends no request; it fires                  *)
(* valueSaveFinished for the value exactly once, after which saveRequestId  *)
(* is 0 and the staged edit state is empty.                                 *)
C3_UnchangedEditSavesNothing ==
    /\ []OneClosurePerUnchangedSave
    /\ [][SaveOfUnchangedEdit(FieldsAsCommitted)]_vars

(* C3, as claimed: the same of every new map that equals the committed one  *)
(* when absent and empty fields are treated alike.                          *)
C3_AbsentAndEmptyAlike ==
    /\ []OneClosurePerUnchangedSave
    /\ [][SaveOfUnchangedEdit(FieldsAlike)]_vars

C3_Witness ==
    /\ op.name = "saveUnchangedDone"
    /\ fired = <<<<"valueSaveFinished", op.type>>>>
    /\ values[op.type].saveRequestId = 0
    /\ values[op.type].data.parsed["value"] = Absent
    /\ values[op.type].scans # <<>>

----------------------------------------------------------------------------
(* Staging scans at the limit: a passport that is stored with one scan      *)
(* less than the limit, or with as many as the limit, and a user who adds   *)
(* up to MaxStaged scans; their encryption has not come back yet.           *)

FilesForms ==
    {[values |-> <<StoredDocument("Passport",
                                  [ValueMap EXCEPT !["name"] = "a"],
                                  scans, FALSE, MasterSecret("srv"))>>,
      required |-> <<"Passport">>, selfieRequired |-> FALSE, bot |-> TRUE] :
        scans \in (kDocumentScansLimit - 1)..kDocumentScansLimit}

Contents == {[bytes |-> <<"image">>, size |-> 1, image |-> TRUE]}

InitFiles == InitWith({"payload"}, {RemoteSecret("srv", ThePassword)})

(* The scans the user deletes and restores: the first and the last.         *)
TouchedScans(type) ==
    IF type \in DOMAIN values
    THEN {1, Len(values[type].scansInEdit)} \ {0}
    ELSE {}

NextFiles ==
    \/ Show
    \/ \E form \in FilesForms : FormDone(form)
    \/ PasswordDone("salt")
    \/ SubmitPassword(ThePassword)
    \/ PasswordCheckDone
    \/ StartValueEdit("Passport")
    \/ CancelValueEdit("Passport")
    \/ \E content \in Contents :
          /\ Cardinality(asyncTasks) < MaxStaged
          /\ UploadScan("Passport", content)
    \/ \E scanIndex \in TouchedScans("Passport") :
          DeleteScan("Passport", scanIndex)
    \/ \E scanIndex \in TouchedScans("Passport") :
          RestoreScan("Passport", scanIndex)

SpecFiles == InitFiles /\ [][NextFiles]_vars

NotDeleted(value) ==
    Cardinality({i \in 1..Len(value.scansInEdit) :
                    ~value.scansInEdit[i].deleted})

(* C5: no value ever has more than kDocumentScansLimit staged scans that    *)
(* are not deleted; an uploadScan, and a restoreScan of a deleted scan, at  *)
(* the limit show the toast and leave the staged scans as they are.         *)
C5_StagedScansWithinLimit ==
    /\ [](\A type \in DOMAIN values :
            NotDeleted(values[type]) <= kDocumentScansLimit)
    /\ [][/\ (/\ op'.name = "uploadScan"
              /\ NotDeleted(values[op'.type]) >= kDocumentScansLimit)
             => /\ toasts' = <<lng_passport_scans_limit_reached>>
                /\ values' = values
                /\ asyncTasks' = asyncTasks
                /\ fired' = <<>>
          /\ (/\ op'.name = "restoreScan"
              /\ values[op'.type].scansInEdit[op'.arg].deleted
              /\ NotDeleted(values[op'.type]) >= kDocumentScansLimit)
             => /\ toasts' = <<lng_passport_scans_limit_reached>>
                /\ values' = values
                /\ fired' = <<>>]_vars

C5_Witness ==
    /\ op.name = "restoreScan"
    /\ toasts = <<lng_passport_scans_limit_reached>>
    /\ values[op.type].scansInEdit[op.arg].deleted
    /\ NotDeleted(values[op.type]) = kDocumentScansLimit
    /\ Len(values[op.type].scansInEdit) > kDocumentScansLimit

----------------------------------------------------------------------------
(* Encrypting staged files while the edit goes on: a passport that is       *)
(* stored with a scan and a selfie, and up to MaxEncrypting encryptions     *)
(* under way.                                                               *)

EncryptForm ==
    [values |-> <<StoredDocument("Passport",
                                 [ValueMap EXCEPT !["name"] = "a"],
                                 1, TRUE, MasterSecret("srv"))>>,
     required |-> <<"Passport">>, selfieRequired |-> TRUE, bot |-> TRUE]

EncryptMaps == {[ValueMap EXCEPT !["name"] = "a"]}

InitEncrypt == InitWith({"payload"}, {RemoteSecret("srv", ThePassword)})

Encrypting == Cardinality(asyncTasks) + Len(mainQueue)

NextEncrypt ==
    \/ Show
    \/ FormDone(EncryptForm)
    \/ PasswordDone("salt")
    \/ SubmitPassword(ThePassword)
    \/ PasswordCheckDone
    \/ StartValueEdit("Passport")
    \/ CancelValueEdit("Passport")
    \/ \E content \in Contents :
          /\ Encrypting < MaxEncrypting
          /\ "Passport" \in DOMAIN values
          /\ Len(values["Passport"].scansInEdit) < MaxStaged
          /\ UploadScan("Passport", content)
    \/ \E content \in Contents :
          /\ Encrypting < MaxEncrypting
          /\ UploadSelfie("Passport", content)
    \/ \E data \in EncryptMaps : SaveValueEdit("Passport", data)
    \/ EncryptAsync
    \/ RunMain
    \/ SaveValueDone("Passport")
    \/ SaveValueFail("Passport", "INTERNAL")

SpecEncrypt == InitEncrypt /\ [][NextEncrypt]_vars

(* The staged files that are the EditFile an encryption was started for:    *)
(* an EditFile takes its guard when it is made and its id when the          *)
(* encryption starts.                                                       *)
StartedFor(task) ==
    {place \in Places(Cur) :
        /\ editFileAt(Cur, place).guard = task.guard
        /\ editFileAt(Cur, place).fields.id = task.fileId}

EncryptTasks ==
    {task \in asyncTasks : task.kind = "encrypt"}
    \cup {mainQueue[i] : i \in {j \in 1..Len(mainQueue) :
                                    mainQueue[j].kind = "encrypted"}}

----------------------------------------------------------------------------
(* Submitting: a form that requires the personal details and a phone, of a  *)
(* user who has stored both, or the personal details alone.                 *)

SubmitForms ==
    {[values |-> <<StoredDocument("PersonalDetails",
                                  [ValueMap EXCEPT !["name"] = "a"],
                                  0, FALSE, MasterSecret("srv"))>> \o plain,
      required |-> <<"PersonalDetails", "Phone">>,
      selfieRequired |-> FALSE, bot |-> TRUE] :
        plain \in {<<>>, <<StoredPlain("Phone", "1")>>}}
    \cup
    {[values |-> <<StoredDocument("PersonalDetails",
                                  [ValueMap EXCEPT !["name"] = "a"],
                                  0, FALSE, MasterSecret("srv")),
                   StoredDocument("Passport",
                                  [ValueMap EXCEPT !["value"] = "b"],
                                  1, TRUE, MasterSecret("srv")),
                   StoredPlain("Phone", "1")>>,
      required |-> <<"PersonalDetails", "Passport", "Phone">>,
      selfieRequired |-> TRUE, bot |-> TRUE]}

InitSubmit == InitWith({"payload"}, {RemoteSecret("srv", ThePassword)})

NextSubmit ==
    \/ Show
    \/ \E form \in SubmitForms : FormDone(form)
    \/ PasswordDone("salt")
    \/ SubmitPassword(ThePassword)
    \/ PasswordCheckDone
    \/ StartValueEdit("Phone")
    \/ CancelValueEdit("Phone")
    \/ \E data \in VerifyMaps : SaveValueEdit("Phone", data)
    \/ SaveValueDone("Phone")
    \/ SaveValueFail("Phone", "INTERNAL")
    \/ DeleteValueEdit("Phone")
    \/ DeleteValueDone("Phone")
    \/ DeleteValueFail("Phone")
    \/ Submit
    \/ SubmitDone
    \/ SubmitFail

SpecSubmit == InitSubmit /\ [][NextSubmit]_vars

NotReady ==
    \E i \in 1..Len(ComputeScopes(Cur)) :
        ComputeScopeRowReadyString(Cur, ComputeScopes(Cur)[i]) = ""

(* C10: a submit while a scope that the form requires is not ready sends    *)
(* no request, returns false and leaves _submitRequestId at 0.              *)
C10_SubmitRefusedWhileNotReady ==
    [][(op'.name = "submit" /\ NotReady)
          => /\ failure' = "none"
             /\ sent' = <<>>
             /\ returned' = "false"
             /\ submitRequestId' = 0]_vars

AnySaving == \E type \in DOMAIN values : savingValue(values[type])

(* C11: while a value has a save in flight, or a verification pending for   *)
(* it, submit issues no submission request.                                 *)
C11_SubmitBlockedWhileSaving ==
    [][(op'.name = "submit" /\ AnySaving)
          => /\ failure' = "none"
             /\ sent' = <<>>
             /\ submitRequestId' = submitRequestId]_vars

Submissions ==
    {id \in DOMAIN network : network[id].kind = "AcceptAuthorization"}

(* C12: while a submission request is in flight, saveValueEdit and          *)
(* deleteValueEdit issue no request and leave the values unchanged, a       *)
(* repeated submit issues no second submission request, and at most one     *)
(* submission request is ever in flight.                                    *)
C12_SubmissionBlocksSavesAndResubmit ==
    /\ [](Cardinality(Submissions) <= 1)
    /\ [](Submissions # {} => Submissions = {submitRequestId})
    /\ [][(/\ op'.name \in {"saveValueEdit", "deleteValueEdit", "submit"}
           /\ submitRequestId # 0)
             => /\ failure' = "none"
                /\ sent' = <<>>
                /\ network' = network
                /\ values' = values
                /\ submitRequestId' = submitRequestId]_vars

C12_Witness ==
    /\ op.name = "saveValueEdit"
    /\ Submissions # {}
    /\ sent = <<>>
    /\ ~savingValue(values[op.type])
    /\ values[op.type].editScreens > 0

----------------------------------------------------------------------------
(* Decrypting what is stored: personal details and a passport of a user     *)
(* whose values were wrapped under the stored secret or under one that is   *)
(* lost, whose payload may be damaged, and whose stored secret opens under  *)
(* the password or does not.                                                *)

(* A stored value whose payload no secret opens; its hash and its wrapped   *)
(* secret are intact.                                                       *)
CorruptPayload(value) ==
    [value EXCEPT !.data.data =
        <<"enc", "?">> \o SubSeq(@, 3, Len(@))]

(* A stored value that was saved with files and without data: what          *)
(* saveEncryptedValue stores of a selfie alone (flags = f_selfie).          *)
FilesOnly(value) ==
    [value EXCEPT !.hasData = FALSE, !.data = NoSecureData]

DecryptForms ==
    {[values |-> <<details, passport>>,
      required |-> <<"PersonalDetails", "Passport">>,
      selfieRequired |-> FALSE, bot |-> TRUE] :
        details \in
            {StoredDocument("PersonalDetails",
                            [ValueMap EXCEPT !["name"] = "a"], 0, FALSE,
                            MasterSecret(name)) : name \in {"srv", "old"}}
            \cup {CorruptPayload(
                    StoredDocument("PersonalDetails",
                                   [ValueMap EXCEPT !["name"] = "a"], 0,
                                   FALSE, MasterSecret("srv")))},
        passport \in
            {StoredDocument("Passport", [ValueMap EXCEPT !["name"] = "b"],
                            1, selfie, MasterSecret(name)) :
                name \in {"srv", "old"}, selfie \in BOOLEAN}
            \cup {FilesOnly(
                    StoredDocument("Passport", ValueMap, 0, TRUE,
                                   MasterSecret("srv")))}}

InitDecrypt ==
    InitWith({"payload"},
             {RemoteSecret("srv", ThePassword), RemoteSecret("srv", "old")})

NextDecrypt ==
    \/ Show
    \/ \E form \in DecryptForms : FormDone(form)
    \/ PasswordDone("salt")
    \/ SubmitPassword(ThePassword)
    \/ PasswordCheckDone
    \/ SaveSecretDone
    \/ SaveSecretFail
    \/ \E type \in EncryptedTypes : StartValueEdit(type)
    \/ \E type \in EncryptedTypes : CancelValueEdit(type)

SpecDecrypt == InitDecrypt /\ [][NextDecrypt]_vars

(* C13: decryptValue of a value whose data.original is not empty, with the  *)
(* master secret present, leaves its decrypted field map not empty or the   *)
(* value unset: a fresh Value of its type.                                  *)
C13_DecryptedOrUnset ==
    [][(/\ op'.name = "passwordCheckDone"
        /\ failure' = "none"
        /\ secret' # Empty)
          => \A type \in DOMAIN values :
                values[type].data.original # Empty
                    => \/ ~MapEmpty(values'[type].data.parsed)
                       \/ values'[type] = Value(type)]_vars

(* C14: with more than one edit session open on a value, cancelValueEdit    *)
(* closes one session and keeps the staged edit state: scansInEdit,         *)
(* selfieInEdit and parsedInEdit.                                           *)
C14_CancelKeepsStateOfOpenSessions ==
    [][(/\ op'.name = "cancelValueEdit"
        /\ values[op'.type].editScreens > 1)
          => /\ failure' = "none"
             /\ values'[op'.type].editScreens
                    = values[op'.type].editScreens - 1
             /\ values'[op'.type].scansInEdit = values[op'.type].scansInEdit
             /\ values'[op'.type].selfieInEdit
                    = values[op'.type].selfieInEdit
             /\ values'[op'.type].data.parsedInEdit
                    = values[op'.type].data.parsedInEdit]_vars

----------------------------------------------------------------------------
(* Generating the secret: a user whose secret the remote authority does     *)
(* not store, or stores under another password, and a view that may hand    *)
(* over the password again while the generated secret is being saved.       *)

InitGenerate ==
    InitWith({"payload"}, {NoRemoteSecret, RemoteSecret("srv", "old")})

NextGenerate ==
    \/ Show
    \/ FormDone(SecretForm)
    \/ PasswordDone("salt")
    \/ ResubmitPassword(ThePassword)
    \/ PasswordCheckDone
    \/ SaveSecretDone
    \/ SaveSecretFail
    \/ \E type \in EncryptedTypes : StartValueEdit(type)
    \/ \E type \in EncryptedTypes : CancelValueEdit(type)

SpecGenerate == InitGenerate /\ [][NextGenerate]_vars

SecretSaves == Open("UpdatePasswordSettings", "")

(* C15: a secret that could not be recovered becomes present, with its id,  *)
(* only in the step that acknowledges the request saving it; while the      *)
(* request is in flight and after it fails _secret is empty, and a          *)
(* generateSecret while the request is in flight sends no second request.   *)
C15_SecretPresentOnlyOnAcknowledge ==
    /\ [](Cardinality(SecretSaves) <= 1)
    /\ [](SecretSaves # {}
            => /\ secret = Empty
               /\ secretId = 0
               /\ SecretSaves = {saveSecretRequestId})
    /\ [][ /\ (secret = Empty /\ secret' # Empty)
                => /\ op'.name = "saveSecretDone"
                   /\ op'.id = saveSecretRequestId
                   /\ secret' = network[op'.id].payload.secret
                   /\ secretId' = CountSecureSecretHash(secret')
                   /\ saveSecretRequestId' = 0
           /\ op'.name = "saveSecretFail"
                => /\ secret' = Empty
                   /\ secretId' = 0
                   /\ saveSecretRequestId' = 0
           /\ (op'.name = "passwordCheckDone" /\ saveSecretRequestId # 0)
                => /\ sent' = <<>>
                   /\ saveSecretRequestId' = saveSecretRequestId
                   /\ secret' = Empty]_vars

C15_Witness ==
    /\ op.name = "passwordCheckDone"
    /\ sent = <<>>
    /\ SecretSaves = {saveSecretRequestId}
    /\ secret = Empty

Unwrapped(id) ==
    DecryptSecureSecret(remoteSecret.salt, remoteSecret.secret,
                        network[id].payload)

StoredEncrypted(value) ==
    \/ value.data.original # Empty
    \/ value.scans # <<>>
    \/ value.selfie # <<>>

(* C16: when a salt and a wrapped secret are supplied and unwrapping fails, *)
(* validateSecureSecret leaves _secret empty with _secretId 0 and resets    *)
(* every value that holds encrypted data, scans or a selfie; when           *)
(* unwrapping succeeds, a value whose own secrets unwrap is not reset.      *)
C16_UnwrapFailureResetsStoredValues ==
    [][(/\ op'.name = "passwordCheckDone"
        /\ failure' = "none"
        /\ remoteSecret.salt # ""
        /\ remoteSecret.secret # Empty)
          => IF Unwrapped(op'.id) = Empty
             THEN /\ secret' = Empty
                  /\ secretId' = 0
                  /\ \A type \in DOMAIN values :
                        StoredEncrypted(values[type])
                            => values'[type] = Value(type)
             ELSE /\ secret' = Unwrapped(op'.id)
                  /\ \A type \in DOMAIN values :
                        (/\ StoredEncrypted(values[type])
                         /\ validateValueSecrets(values[type],
                                                 Unwrapped(op'.id)).ok)
                            => /\ values'[type].data.original
                                    = values[type].data.original
                               /\ Len(values'[type].scans)
                                    = Len(values[type].scans)
                               /\ Len(values'[type].selfie)
                                    = Len(values[type].selfie)]_vars

----------------------------------------------------------------------------
(* Downloading what is stored: a passport that is stored with a scan and a  *)
(* selfie, edit sessions that open and close, loaders that report, and a    *)
(* delete that takes the files away while their loaders run.                *)

DownloadKeys == {<<1, 1>>, <<2, 1>>}

(* What the remote authority holds of StoredFile(key[1], ..), and bytes     *)
(* that the file's secret does not open.                                    *)
StoredBytes(key) ==
    EncryptData(ToString(key[1]), <<"image">>,
                ItemSecret(ToString(key[1]))).bytes

DamagedBytes == <<"enc", "?", "?", "image">>

InitDownload == InitWith({"payload"}, {RemoteSecret("srv", ThePassword)})

NextDownload ==
    \/ Show
    \/ FormDone(EncryptForm)
    \/ PasswordDone("salt")
    \/ SubmitPassword(ThePassword)
    \/ PasswordCheckDone
    \/ StartValueEdit("Passport")
    \/ CancelValueEdit("Passport")
    \/ DeleteValueEdit("Passport")
    \/ DeleteValueDone("Passport")
    \/ \E key \in DownloadKeys :
          \E bytes \in {StoredBytes(key), DamagedBytes} :
              FileLoadDone(key, bytes)
    \/ \E key \in DownloadKeys, offset \in 0..1 :
          FileLoadProgress(key, offset)
    \/ \E key \in DownloadKeys : FileLoadFail(key)

SpecDownload == InitDownload /\ [][NextDownload]_vars

StartedKeys == {started[i] : i \in 1..Len(started)}

CommittedFiles(type) ==
    {values[type].scans[i] : i \in 1..Len(values[type].scans)}
    \cup {values[type].selfie[i] : i \in 1..Len(values[type].selfie)}

(* C17: a key gets a loader once at most, whatever the number of loadFile   *)
(* calls for it; a loadFile for a key that has a loader, or for a file      *)
(* whose image is decoded, starts no download.                              *)
C17_OneLoaderPerKey ==
    /\ [](loading \subseteq fileLoaders)
    /\ [](Cardinality(StartedKeys) = Len(started))
    /\ [][/\ StartedKeys' \cap fileLoaders = {}
          /\ fileLoaders' = fileLoaders \cup StartedKeys'
          /\ op'.name = "startValueEdit"
                => \A file \in CommittedFiles(op'.type) :
                      file.image => FileKey(file) \notin StartedKeys']_vars

C17_Witness ==
    /\ op.name = "startValueEdit"
    /\ started = <<>>
    /\ values[op.type].editScreens = 2
    /\ values[op.type].scans # <<>>
    /\ values[op.type].selfie # <<>>
    /\ values[op.type].scans[1].image
    /\ ~values[op.type].selfie[1].image
    /\ FileKey(values[op.type].selfie[1]) \in fileLoaders

OffsetInRange(file) ==
    file.downloadOffset = -1
    \/ (0 <= file.downloadOffset /\ file.downloadOffset <= file.size)

StagedFiles(type) ==
    {EditFiles(values[type])[i].fields :
        i \in 1..Len(EditFiles(values[type]))}

(* The values after the download of the committed file at `place` failed:   *)
(* the file and the staged file with its key have the offset -1.            *)
AfterFailedDownload(place, key) ==
    LET failed == setCommitted(Cur, place,
                    [committedAt(Cur, place) EXCEPT !.downloadOffset = -1])
        staged == findEditFileByKey(Cur, key)
    IN  IF staged = {} THEN failed.values
        ELSE LET edit == CHOOSE p \in staged : TRUE
             IN  setEditFile(failed, edit,
                    [editFileAt(Cur, edit) EXCEPT
                        !.fields.downloadOffset = -1]).values

(* C18: a download that completes with bytes that do not decrypt leaves     *)
(* the File failed (downloadOffset -1, no image), mirrors that in the       *)
(* staged file with the key and fires scanUpdated for it, and changes       *)
(* nothing else; a notification whose key matches no committed File is      *)
(* ignored; a File's downloadOffset is always -1 or within 0..size.         *)
C18_FailedDownloadIsFailedState ==
    /\ [](\A type \in DOMAIN values :
            \A file \in CommittedFiles(type) \cup StagedFiles(type) :
                OffsetInRange(file))
    /\ [][op'.name \in {"fileLoadDone", "fileLoadProgress", "fileLoadFail"}
            => LET key == op'.arg[1]
                   found == findFile(Cur, key)
               IN  /\ failure' = "none"
                   /\ sent' = <<>>
                   /\ network' = network
                   /\ fileLoaders' = fileLoaders
                   /\ started' = <<>>
                   /\ found = {} => (values' = values /\ fired' = <<>>)
                   /\ (/\ found # {}
                       /\ op'.name = "fileLoadDone"
                       /\ DecryptData(op'.arg[2],
                            committedAt(Cur, CHOOSE p \in found : TRUE).hash,
                            committedAt(Cur, CHOOSE p \in found : TRUE).secret)
                            = Empty)
                        => LET place == CHOOSE p \in found : TRUE
                           IN  /\ values' = AfterFailedDownload(place, key)
                               /\ ~committedAt(Cur, place).image
                               /\ fired' =
                                    IF findEditFileByKey(Cur, key) = {}
                                    THEN <<>>
                                    ELSE <<<<"scanUpdated", place.type>>>>]_vars

C18_Witness ==
    /\ op.name = "fileLoadDone"
    /\ op.arg[2] = DamagedBytes
    /\ fired = <<<<"scanUpdated", "Passport">>>>
    /\ \E file \in CommittedFiles("Passport") :
          /\ FileKey(file) = op.arg[1]
          /\ file.downloadOffset = -1
          /\ ~file.image

C18_IgnoredWitness ==
    /\ op.name \in {"fileLoadDone", "fileLoadProgress", "fileLoadFail"}
    /\ findFile(Cur, op.arg[1]) = {}

----------------------------------------------------------------------------
(* Uploading staged files: a passport that is stored without files, a user  *)
(* who stages scans and a selfie, deletes the value and closes the edit,    *)
(* and an uploader that reports on the attempts.                            *)

UploadForm ==
    [values |-> <<StoredDocument("Passport",
                                 [ValueMap EXCEPT !["name"] = "a"],
                                 0, FALSE, MasterSecret("srv"))>>,
     required |-> <<"Passport">>, selfieRequired |-> TRUE, bot |-> TRUE]

InitUpload == InitWith({"payload"}, {RemoteSecret("srv", ThePassword)})

NextUpload ==
    \/ Show
    \/ FormDone(UploadForm)
    \/ PasswordDone("salt")
    \/ SubmitPassword(ThePassword)
    \/ PasswordCheckDone
    \/ StartValueEdit("Passport")
    \/ CancelValueEdit("Passport")
    \/ \E content \in Contents :
          /\ Encrypting < MaxEncrypting
          /\ "Passport" \in DOMAIN values
          /\ values["Passport"].scansInEdit = <<>>
          /\ UploadScan("Passport", content)
    \/ \E content \in Contents :
          /\ Encrypting < MaxEncrypting
          /\ UploadSelfie("Passport", content)
    \/ EncryptAsync
    \/ RunMain
    \/ ScanUploadDone(1)
    \/ ScanUploadFail
    \/ DeleteValueEdit("Passport")
    \/ DeleteValueDone("Passport")

SpecUpload == InitUpload /\ [][NextUpload]_vars

Staged == AllEditFiles(Cur)

(* The staged files whose upload is in flight.                              *)
Uploading ==
    {file \in Staged :
        file.uploadData # <<>> /\ file.uploadData[1].fullId # 0}

(* The staged files whose upload completed.                                 *)
Uploaded ==
    {file \in Staged :
        /\ file.uploadData # <<>>
        /\ file.uploadData[1].fullId = 0
        /\ file.uploadData[1].partsCount > 0}

UploadIds(files) == {file.uploadData[1].fileId : file \in files}

(* C19: a step asks the uploader to cancel the uploads in flight of the     *)
(* staged files it destroys, and no other: not the upload of a file that    *)
(* stays, of one whose upload completed or of one that never started.       *)
C19_DestroyedUploadIsCancelled ==
    [][cancelled' =
        {file.uploadData[1].fullId :
            file \in {gone \in Uploading :
                        gone.uploadData[1].fileId
                            \notin UploadIds(Uploading' \cup Uploaded')}}]_vars

C19_Witness ==
    /\ cancelled # {}
    /\ op.name \in {"cancelValueEdit", "uploadSelfie", "deleteValueDone",
                     "saveValueDone", "startValueEdit", "saveUnchangedDone"}

----------------------------------------------------------------------------
(* The credentials document.                                                *)

(* The state with every decrypted field text replaced by another text.      *)
Scrubbed ==
    [Cur EXCEPT !.values =
        [type \in DOMAIN values |->
            [values[type] EXCEPT !.data.parsed =
                [key \in FieldKeys |->
                    IF values[type].data.parsed[key] = Absent THEN Absent
                    ELSE "scrubbed"]]]]

HashAndSecret(hash, itemSecret) ==
    [data_hash |-> Base64(hash), secret |-> Base64(itemSecret)]

FileHashAndSecret(file) ==
    [file_hash |-> Base64(file.hash), secret |-> Base64(file.secret)]

(* C20: the credentials document a submission carries holds, under the      *)
(* fixed key of each accepted encrypted value, its content hashes and       *)
(* per-item secrets, and the payload; a phone or an email adds its          *)
(* submit-hash to the hash list and nothing to the document; the document   *)
(* is the same whatever the decrypted field texts are.                      *)
C20_CredentialsHoldHashesAndSecretsOnly ==
    [][(op'.name = "submit" /\ sent' # <<>>)
          => LET final == sent'[1].payload
                 document == final.credentials[1]
                 entries == document.secure_data
             IN  /\ Len(final.credentials) = 1
                 /\ final = prepareFinalData(Scrubbed)
                 /\ document.payload = requestPayload
                 /\ \A i \in 1..Len(final.hashes) :
                       /\ final.hashes[i][1] \in DOMAIN values
                       /\ final.hashes[i][2]
                            = values[final.hashes[i][1]].submitHash
                 /\ \A type \in PlainTypes :
                       (\E i \in 1..Len(formRequest) : formRequest[i] = type)
                          => \E i \in 1..Len(final.hashes) :
                                final.hashes[i][1] = type
                 /\ \A i \in 1..Len(entries) :
                       \E type \in EncryptedTypes \cap DOMAIN values :
                          /\ entries[i].key = ValueCredentialsKey(type)
                          /\ entries[i].key \in {"personal_details",
                                                  "passport"}
                          /\ entries[i].object.data
                                = <<HashAndSecret(values[type].data.hash,
                                                  values[type].data.secret)>>
                          /\ entries[i].object.files
                                = [j \in 1..Len(values[type].scans) |->
                                     FileHashAndSecret(values[type].scans[j])]
                          /\ entries[i].object.selfie
                                = [j \in 1..Len(values[type].selfie) |->
                                     FileHashAndSecret(
                                        values[type].selfie[j])]]_vars

C20_Witness ==
    /\ op.name = "submit"
    /\ Len(sent) = 1
    /\ Len(sent[1].payload.hashes) = 3
    /\ Len(sent[1].payload.credentials[1].secure_data) = 2
    /\ sent[1].payload.credentials[1].secure_data[2].key = "passport"
    /\ sent[1].payload.credentials[1].secure_data[2].object.files # <<>>

----------------------------------------------------------------------------
(* A submission that failed.                                                *)

(* C21: right after a submission request failed, a submit with every scope  *)
(* ready issues a new submission request, and a delete of a value that is   *)
(* not saving issues its request.                                           *)
C21_FailedSubmissionIsRetryable ==
    [][op.name = "submitFail"
          => /\ (op'.name = "submit" /\ ~NotReady)
                   => /\ Len(sent') = 1
                      /\ sent'[1].kind = "AcceptAuthorization"
             /\ (op'.name = "deleteValueEdit"
                    /\ ~savingValue(values[op'.type]))
                   => /\ Len(sent') = 1
                      /\ sent'[1].kind = "DeleteSecureValue"]_vars

----------------------------------------------------------------------------
(* A verify request that failed.                                            *)

WrongCodeError(type) ==
    IF values[type].type = "Phone" THEN "PHONE_CODE_INVALID"
    ELSE "CODE_INVALID"

(* C22: the step of a failed verify request sets verification.requestId to  *)
(* 0 and keeps codeLength and phoneCodeHash, so the value is still saving   *)
(* and a verify right after it with a code of the right length is sent;     *)
(* verification.error is the wrong-code message for PHONE_CODE_INVALID of   *)
(* a phone and CODE_INVALID of an email, the error's type otherwise.        *)
C22_VerifyFailureReturnsToCodeSent ==
    [][/\ op'.name = "verifyFail"
          => /\ failure' = "none"
             /\ values' =
                   [values EXCEPT
                      ![op'.type].verification.requestId = 0,
                      ![op'.type].verification.error =
                         IF op'.arg = WrongCodeError(op'.type)
                         THEN lng_signin_wrong_code ELSE op'.arg]
             /\ values'[op'.type].verification.codeLength # 0
             /\ savingValue(values'[op'.type])
             /\ fired' = <<<<"verificationUpdate", op'.type>>>>
             /\ sent' = <<>>
       /\ (/\ op.name = "verifyFail"
           /\ op'.name = "verify"
           /\ op'.type = op.type
           /\ Stripped(op'.arg) # <<>>
           /\ values[op.type].verification.codeLength
                 \in {-1, Len(Stripped(op'.arg))})
          => /\ Len(sent') = 1
             /\ sent'[1].kind \in {"VerifyPhone", "VerifyEmail"}
             /\ values'[op'.type].verification.requestId
                   \in DOMAIN network']_vars

C22_Witness ==
    /\ op.name = "verifyFail"
    /\ op.arg = "CODE_INVALID"
    /\ values[op.type].type = "Email"
    /\ values[op.type].verification.error = lng_signin_wrong_code
    /\ values[op.type].verification.requestId = 0
    /\ values[op.type].verification.codeLength = CodeLength

----------------------------------------------------------------------------
(* Deleting a staged scan and restoring it.                                 *)

(* What a step leaves alone when it touches nothing but the values.         *)
OnlyValuesChange ==
    UNCHANGED <<formRequest, selfieRequired, requestPayload, bot, shown,
                fileLoaders, passwordSalt, secret, secretId,
                secretCallbacks, saveSecretRequestId,
                passwordCheckRequestId, submitRequestId, formRequestId,
                passwordRequestId, network, remoteSecret, mainQueue,
                asyncTasks, uploads, loading>>

(* A deleteScan or a restoreScan changes, of the program's state, at most   *)
(* the deleted flag of the staged scan it addresses.                        *)
FlagAloneChanges ==
    [][op'.name \in {"deleteScan", "restoreScan"}
          => /\ failure' = "none"
             /\ OnlyValuesChange
             /\ sent' = <<>>
             /\ cancelled' = {}
             /\ \/ values' = values
                \/ values' =
                      [values EXCEPT
                         ![op'.type].scansInEdit[op'.arg].deleted =
                            (op'.name = "deleteScan")]
             /\ op'.name = "deleteScan"
                   => values'[op'.type].scansInEdit[op'.arg].deleted]_vars

(* C23, as the specification states it: with that, a restoreScan right      *)
(* after a deleteScan of the same scan leaves the staged state that was     *)
(* there before the deleteScan.                                             *)
C23_DeleteThenRestoreIsIdentity ==
    /\ FlagAloneChanges
    /\ [][(/\ op.name = "deleteScan"
           /\ op'.name = "restoreScan"
           /\ op'.type = op.type
           /\ op'.arg = op.arg)
             => values' =
                   [values EXCEPT
                      ![op.type].scansInEdit[op.arg].deleted =
                         wasDeleted]]_vars

(* C23, amended: a restoreScan right after a deleteScan of the same scan    *)
(* leaves the staged state that was there before the deleteScan when the    *)
(* scan was not deleted before it; a scan that was deleted already comes    *)
(* out of the pair restored if the limit allows it.                         *)
C23_DeleteThenRestoreOfKeptScan ==
    /\ FlagAloneChanges
    /\ [][(/\ op.name = "deleteScan"
           /\ op'.name = "restoreScan"
           /\ op'.type = op.type
           /\ op'.arg = op.arg)
             => /\ ~wasDeleted
                   => /\ toasts' = <<>>
                      /\ values' =
                            [values EXCEPT
                               ![op.type].scansInEdit[op.arg].deleted =
                                  FALSE]
                /\ (wasDeleted /\ canAddScan(values[op.type]))
                   => ~values'[op.type].scansInEdit[op.arg].deleted]_vars

C23_Witness ==
    /\ op.name = "restoreScan"
    /\ wasDeleted
    /\ fired = <<<<"scanUpdated", op.type>>>>
    /\ Len(values[op.type].scansInEdit) >= 2
    /\ ~values[op.type].scansInEdit[op.arg].deleted
    /\ \E i \in 1..Len(values[op.type].scansInEdit) :
          values[op.type].scansInEdit[i].deleted

----------------------------------------------------------------------------
(* The value map: forms in which the remote authority returns two values    *)
(* of a type, a value of a type that is not required and no value of one    *)
(* that is, of a user whose stored secret opens under the password or does  *)
(* not.                                                                     *)

MapForms ==
    {[values |-> <<StoredPlain("Phone", "1"), StoredPlain("Phone", "2")>>,
      required |-> <<"Phone", "Email">>,
      selfieRequired |-> FALSE, bot |-> TRUE],
     [values |-> <<StoredDocument("PersonalDetails",
                                  [ValueMap EXCEPT !["name"] = "a"],
                                  0, FALSE, MasterSecret("srv")),
                   StoredPlain("Email", "e")>>,
      required |-> <<"PersonalDetails", "Phone">>,
      selfieRequired |-> FALSE, bot |-> TRUE]}

MapTypes == {"Phone", "PersonalDetails"}

InitMap ==
    InitWith({"payload"},
             {RemoteSecret("srv", ThePassword), RemoteSecret("srv", "old")})

NextMap ==
    \/ Show
    \/ \E form \in MapForms : FormDone(form)
    \/ PasswordDone("salt")
    \/ SubmitPassword(ThePassword)
    \/ PasswordCheckDone
    \/ SaveSecretDone
    \/ SaveSecretFail
    \/ \E type \in MapTypes : StartValueEdit(type)
    \/ \E type \in MapTypes : CancelValueEdit(type)
    \/ \E type \in MapTypes, data \in VerifyMaps : SaveValueEdit(type, data)
    \/ RunMain
    \/ \E type \in MapTypes : SaveValueDone(type)
    \/ SaveValueFail("Phone", "PHONE_VERIFICATION_NEEDED")
    \/ \E type \in MapTypes : DeleteValueEdit(type)
    \/ \E type \in MapTypes : DeleteValueDone(type)
    \/ PhoneCodeDone("Phone", "Sms", CodeLength, FALSE)
    \/ Verify("Phone", <<"1", "2">>)
    \/ VerifyDone("Phone")

SpecMap == InitMap /\ [][NextMap]_vars

(* The first value of the type among those the remote authority returned.   *)
FirstOfType(result, type) ==
    result.values[Min({i \in 1..Len(result.values) :
                        result.values[i].type = type})]

(* C24: the value map holds a value of its own type for every required      *)
(* type; formDone stores, of the values the remote authority returned, the  *)
(* first of each type as it parses and an empty value for a required type   *)
(* that has none; no step takes a type out of the map and findValue's       *)
(* assertion never fails.                                                   *)
C24_OneValuePerRequiredType ==
    /\ [](\A i \in 1..Len(formRequest) : formRequest[i] \in DOMAIN values)
    /\ [](\A type \in DOMAIN values : values[type].type = type)
    /\ [](failure # "findValue.Assert")
    /\ [][/\ DOMAIN values \subseteq DOMAIN values'
          /\ op'.name = "formDone"
                => /\ formRequest' = op'.arg.required
                   /\ \A i \in 1..Len(op'.arg.values) :
                         values'[op'.arg.values[i].type] =
                            parseValue(FirstOfType(op'.arg,
                                                   op'.arg.values[i].type),
                                       <<>>)
                   /\ \A type \in DOMAIN values' :
                         \/ \E i \in 1..Len(op'.arg.values) :
                               op'.arg.values[i].type = type
                         \/ /\ \E i \in 1..Len(op'.arg.required) :
                                  op'.arg.required[i] = type
                            /\ values'[type] = Value(type)]_vars

C24_Witness ==
    /\ op.name = "formDone"
    /\ Len(op.arg.values) = 2
    /\ op.arg.values[1].type = op.arg.values[2].type
    /\ DOMAIN values = {"Phone", "Email"}
    /\ values["Phone"].data.parsed["value"] = "1"
    /\ values["Email"] = Value("Email")

----------------------------------------------------------------------------
(* A save or a delete that failed.                                          *)

(* The failure is one that sendSaveRequest answers with a verification.     *)
StartsVerification ==
    /\ op'.name = "saveValueFail"
    /\ \/ op'.arg = "PHONE_VERIFICATION_NEEDED"
            /\ values[op'.type].type = "Phone"
       \/ op'.arg = "EMAIL_VERIFICATION_NEEDED"
            /\ values[op'.type].type = "Email"

(* The value with its staged edit state cleared.                            *)
WithoutEdit(value) ==
    [value EXCEPT !.scansInEdit = <<>>,
                  !.selfieInEdit = <<>>,
                  !.data.encryptedSecretInEdit = Empty,
                  !.data.hashInEdit = Empty,
                  !.data.parsedInEdit = ValueMap]

(* C25: the step of a failed save or delete request that starts no          *)
(* verification completes, sets saveRequestId to 0 and fires                *)
(* valueSaveFinished once; it keeps the staged edit state while an edit     *)
(* session is open and clears it when none is.                              *)
C25_FailedSaveReopensValue ==
    [][(/\ op'.name \in {"saveValueFail", "deleteValueFail"}
        /\ ~StartsVerification)
          => LET before == [values[op'.type] EXCEPT !.saveRequestId = 0]
             IN  /\ failure' = "none"
                 /\ fired' = <<<<"valueSaveFinished", op'.type>>>>
                 /\ sent' = <<>>
                 /\ values'[op'.type].saveRequestId = 0
                 /\ values' =
                       [values EXCEPT
                          ![op'.type] = IF before.editScreens > 0
                                        THEN before
                                        ELSE WithoutEdit(before)]]_vars

C25_Witness ==
    /\ op.name = "deleteValueFail"
    /\ fired = <<<<"valueSaveFinished", op.type>>>>
    /\ values[op.type].saveRequestId = 0
    /\ values[op.type].editScreens > 0
    /\ values[op.type].scansInEdit # <<>>

C25_ClosedWitness ==
    /\ op.name = "saveValueFail"
    /\ fired = <<<<"valueSaveFinished", op.type>>>>
    /\ values[op.type].editScreens = 0
    /\ values[op.type] = WithoutEdit(values[op.type])

----------------------------------------------------------------------------
(* The edit sessions of a value: a passport that is stored with its fields  *)
(* and a scan, or as a selfie alone, of a user whose stored secret opens    *)
(* under the password or does not, and a view that may hand over the        *)
(* password again.                                                          *)

SessionForms ==
    {[values |-> <<passport>>, required |-> <<"Passport">>,
      selfieRequired |-> TRUE, bot |-> TRUE] :
        passport \in
            {StoredDocument("Passport", [ValueMap EXCEPT !["name"] = "b"],
                            1, FALSE, MasterSecret("srv")),
             FilesOnly(StoredDocument("Passport", ValueMap, 0, TRUE,
                                      MasterSecret("srv")))}}

InitSessions ==
    InitWith({"payload"},
             {RemoteSecret("srv", ThePassword), RemoteSecret("srv", "old")})

NextSessions ==
    \/ Show
    \/ \E form \in SessionForms : FormDone(form)
    \/ PasswordDone("salt")
    \/ ResubmitPassword(ThePassword)
    \/ PasswordCheckDone
    \/ SaveSecretDone
    \/ SaveSecretFail
    \/ StartValueEdit("Passport")
    \/ CancelValueEdit("Passport")
    \/ \E data \in EncryptMaps : SaveValueEdit("Passport", data)
    \/ RunMain
    \/ SaveValueDone("Passport")
    \/ SaveValueFail("Passport", "INTERNAL")
    \/ DeleteValueEdit("Passport")
    \/ DeleteValueDone("Passport")
    \/ DeleteValueFail("Passport")

SpecSessions == InitSessions /\ [][NextSessions]_vars

(* What the step adds to the edit sessions of the value.                    *)
SessionsOpened(type) ==
    IF op'.name = "startValueEdit" /\ op'.type = type THEN 1
    ELSE IF op'.name = "cancelValueEdit" /\ op'.type = type THEN -1
    ELSE 0

(* C26: editScreens of a value is never negative and changes only by a      *)
(* startValueEdit, which adds one, and by a cancelValueEdit, which takes    *)
(* one: a save or a delete that completes and a reset of the value leave    *)
(* it as it is.                                                             *)
C26_EditScreensCountsOpenSessions ==
    /\ [](\A type \in DOMAIN values : values[type].editScreens >= 0)
    /\ [](failure # "cancelValueEdit.Expects")
    /\ [][failure' = "none"
            => \A type \in DOMAIN values :
                  values'[type].editScreens
                     = values[type].editScreens + SessionsOpened(type)]_vars

----------------------------------------------------------------------------
(* A phone or an email of a user who has no secret stored yet: its save is  *)
(* sent at once, while the generated secret is still being saved.           *)

InitPlain == InitWith({"payload"}, {NoRemoteSecret})

NextPlain ==
    \/ Show
    \/ \E form \in VerifyForms : FormDone(form)
    \/ PasswordDone("salt")
    \/ SubmitPassword(ThePassword)
    \/ PasswordCheckDone
    \/ SaveSecretDone
    \/ SaveSecretFail
    \/ \E type \in PlainTypes : StartValueEdit(type)
    \/ \E type \in PlainTypes : CancelValueEdit(type)
    \/ \E type \in PlainTypes, data \in VerifyMaps :
          SaveValueEdit(type, data)
    \/ RunMain
    \/ \E type \in PlainTypes : SaveValueDone(type)
    \/ \E type \in PlainTypes : SaveValueFail(type, "INTERNAL")

SpecPlain == InitPlain /\ [][NextPlain]_vars

(* C27: the master secret is present whenever decryptValue runs: no step    *)
(* fails its Expects(!_secret.empty()), and the step of a completed save    *)
(* of a phone or an email finds the secret present.                         *)
C27_SecretPresentWhenDecrypting ==
    /\ [](failure \notin {"decryptValue.Expects", "decryptValues.Expects"})
    /\ [][op'.name = "saveValueDone" => secret # Empty]_vars

----------------------------------------------------------------------------
(* Wrapping the secret of an uploaded file: a passport of a user whose      *)
(* secret is stored, or is generated and awaits its acknowledgement.        *)

WrapForm ==
    [values |-> <<>>, required |-> <<"Passport">>, selfieRequired |-> TRUE,
     bot |-> TRUE]

InitWrap ==
    InitWith({"payload"}, {NoRemoteSecret, RemoteSecret("srv", ThePassword)})

NextWrap ==
    \/ Show
    \/ FormDone(WrapForm)
    \/ PasswordDone("salt")
    \/ SubmitPassword(ThePassword)
    \/ PasswordCheckDone
    \/ SaveSecretDone
    \/ SaveSecretFail
    \/ StartValueEdit("Passport")
    \/ CancelValueEdit("Passport")
    \/ \E content \in Contents :
          /\ Encrypting < MaxEncrypting
          /\ "Passport" \in DOMAIN values
          /\ values["Passport"].scansInEdit = <<>>
          /\ UploadScan("Passport", content)
    \/ \E content \in Contents :
          /\ Encrypting < MaxEncrypting
          /\ UploadSelfie("Passport", content)
    \/ EncryptAsync
    \/ RunMain
    \/ ScanUploadDone(1)
    \/ ScanUploadFail

SpecWrap == InitWrap /\ [][NextWrap]_vars

(* C28: the step of a completed upload of a staged file finds the master    *)
(* secret present, and every staged file whose upload completed holds its   *)
(* secret wrapped under the master secret, which is not empty, keyed by     *)
(* its hash.                                                                *)
C28_UploadCompletesUnderSecret ==
    /\ [][(op'.name = "scanUploadDone" /\ findEditFile(Cur, op'.arg) # {})
            => secret # Empty]_vars
    /\ [](\A file \in Uploaded :
            /\ secret # Empty
            /\ file.fields.encryptedSecret
                  = EncryptValueSecret(file.fields.secret, secret,
                                       file.fields.hash))

----------------------------------------------------------------------------
(* Saving an edit that holds a file the user added.                         *)

CommittedIds(value) ==
    {value.scans[i].id : i \in 1..Len(value.scans)}
    \cup {value.selfie[i].id : i \in 1..Len(value.selfie)}

(* The staged files the user added in this edit and did not delete.         *)
NewlyStaged(value) ==
    {file \in {EditFiles(value)[i] : i \in 1..Len(EditFiles(value))} :
        ~file.deleted /\ file.fields.id \notin CommittedIds(value)}

(* C29: a saveValueEdit of a value that is not saving, with no submission   *)
(* in flight, whose edit holds a newly staged file that is not deleted,     *)
(* does not take the path of an unchanged edit: saveRequestId does not      *)
(* become -1 and no closure that discards the staged files is posted.       *)
C29_StagedFileCountsAsChange ==
    [][(/\ op'.name = "saveValueEdit"
        /\ ~savingValue(values[op'.type])
        /\ submitRequestId = 0
        /\ NewlyStaged(values[op'.type]) # {})
          => /\ values'[op'.type].saveRequestId # -1
             /\ mainQueue' = mainQueue]_vars

----------------------------------------------------------------------------
(* Saving while files are uploaded: a passport that is stored without       *)
(* files, a user who stages a scan, deletes and restores it and saves, and  *)
(* an uploader that reports on the attempt.                                 *)

InitSaveFiles == InitWith({"payload"}, {RemoteSecret("srv", ThePassword)})

NextSaveFiles ==
    \/ Show
    \/ FormDone(UploadForm)
    \/ PasswordDone("salt")
    \/ SubmitPassword(ThePassword)
    \/ PasswordCheckDone
    \/ StartValueEdit("Passport")
    \/ CancelValueEdit("Passport")
    \/ \E content \in Contents :
          /\ Encrypting < MaxEncrypting
          /\ "Passport" \in DOMAIN values
          /\ values["Passport"].scansInEdit = <<>>
          /\ UploadScan("Passport", content)
    \/ DeleteScan("Passport", 1)
    \/ RestoreScan("Passport", 1)
    \/ EncryptAsync
    \/ RunMain
    \/ ScanUploadDone(1)
    \/ ScanUploadFail
    \/ \E data \in EncryptMaps : SaveValueEdit("Passport", data)
    \/ SaveValueDone("Passport")
    \/ SaveValueFail("Passport", "INTERNAL")

SpecSaveFiles == InitSaveFiles /\ [][NextSaveFiles]_vars

(* The files a save request lists: its scans and its selfie.                *)
ListedFiles(request) ==
    {request.payload.files[i] : i \in 1..Len(request.payload.files)}
    \cup {request.payload.selfie[i] : i \in 1..Len(request.payload.selfie)}

(* The staged file's upload completed: the part count is recorded, the      *)
(* hash and the wrapped secret are set.                                     *)
UploadCompleted(file) ==
    /\ file.uploadData # <<>>
    /\ file.uploadData[1].fullId = 0
    /\ file.uploadData[1].partsCount > 0
    /\ file.uploadData[1].offset # -1
    /\ file.fields.hash # Empty
    /\ file.fields.encryptedSecret # Empty

(* C30: every file a save request lists is a staged file of the value that  *)
(* is not deleted, and every one it lists as newly uploaded is a staged     *)
(* file whose upload completed.                                             *)
C30_SavedFilesAreUploaded ==
    [][\A i \in 1..Len(sent') :
          (sent'[i].kind = "SaveSecureValue"
             /\ isEncryptedValue(sent'[i].type))
            => \A listed \in ListedFiles(sent'[i]) :
                  \E file \in {EditFiles(values[sent'[i].type])[j] :
                        j \in 1..Len(EditFiles(values[sent'[i].type]))} :
                     /\ file.fields.id = listed.id
                     /\ ~file.deleted
                     /\ listed.uploaded => UploadCompleted(file)]_vars

----------------------------------------------------------------------------
(* The identifier of the secret: a passport of a user whose secret is       *)
(* stored, is stored under another password or is not stored, a view that   *)
(* may hand over the password again, and saves with a staged scan.          *)

InitIdentity ==
    InitWith({"payload"},
             {NoRemoteSecret, RemoteSecret("srv", ThePassword),
              RemoteSecret("srv", "old")})

NextIdentity ==
    \/ Show
    \/ FormDone(WrapForm)
    \/ PasswordDone("salt")
    \/ ResubmitPassword(ThePassword)
    \/ PasswordCheckDone
    \/ SaveSecretDone
    \/ SaveSecretFail
    \/ StartValueEdit("Passport")
    \/ CancelValueEdit("Passport")
    \/ \E content \in Contents :
          /\ Encrypting < MaxEncrypting
          /\ "Passport" \in DOMAIN values
          /\ values["Passport"].scansInEdit = <<>>
          /\ UploadScan("Passport", content)
    \/ EncryptAsync
    \/ RunMain
    \/ ScanUploadDone(1)
    \/ \E data \in EncryptMaps : SaveValueEdit("Passport", data)
    \/ SaveValueDone("Passport")

SpecIdentity == InitIdentity /\ [][NextIdentity]_vars

(* _secretId is 0 without a secret and the digest of the secret with one.   *)
SecretIdMatches ==
    secretId = IF secret = Empty THEN 0 ELSE CountSecureSecretHash(secret)

(* The save requests the step sent with the secret present.                 *)
SavesUnderSecret ==
    {sent'[i] : i \in {j \in 1..Len(sent') :
                          /\ sent'[j].kind = "SaveSecureValue"
                          /\ secret' # Empty}}

(* C31: _secretId matches _secret in every state, and a save request sent   *)
(* while the secret is present carries the identifier of the secret under   *)
(* which the secrets of its data and of its newly uploaded files are        *)
(* wrapped (a file that has no secret yet is not looked at).                *)
C31_SecretIdMatchesSecret ==
    /\ []SecretIdMatches
    /\ [][\A request \in SavesUnderSecret :
            /\ request.payload.secretId = CountSecureSecretHash(secret')
            /\ request.payload.flags.data
                  => DecryptValueSecret(request.payload.data.secret,
                                        secret',
                                        request.payload.data.hash) # Empty
            /\ \A listed \in ListedFiles(request) :
                  (listed.uploaded /\ listed.secret # Empty)
                     => DecryptValueSecret(listed.secret, secret',
                                           listed.hash) # Empty]_vars

(* The part of it that does not look at the files.                          *)
SecretIdMatchesData ==
    /\ []SecretIdMatches
    /\ [][\A request \in SavesUnderSecret :
            /\ request.payload.secretId = CountSecureSecretHash(secret')
            /\ request.payload.flags.data
                  => DecryptValueSecret(request.payload.data.secret,
                                        secret',
                                        request.payload.data.hash) # Empty]_vars

----------------------------------------------------------------------------
(* Opening: the form and the password are requested together and answered  *)
(* in any order, each with a result or with an error; the request may come  *)
(* without a payload, and the bot of the form may be unknown.               *)

ShowForms ==
    {[values |-> <<>>, required |-> required, selfieRequired |-> FALSE,
      bot |-> known] :
        required \in {<<"Phone">>, <<"Passport">>}, known \in BOOLEAN}

InitShow ==
    InitWith({"payload", ""}, {NoRemoteSecret, RemoteSecret("srv", ThePassword)})

NextShow ==
    \/ Show
    \/ \E result \in ShowForms : FormDone(result)
    \/ FormFail
    \/ \E salt \in {"", "salt"} : PasswordDone(salt)
    \/ PasswordFail
    \/ SubmitPassword(ThePassword)
    \/ PasswordCheckDone
    \/ SaveSecretDone
    \/ SaveSecretFail
    \/ \E type \in {"Phone", "Passport"} : StartValueEdit(type)
    \/ \E type \in {"Phone", "Passport"} : CancelValueEdit(type)

SpecShow == InitShow /\ [][NextShow]_vars

(* What showForm() leaves on screen: one of its three outcomes a call.      *)
ShowFormCalls ==
    Cardinality({i \in 1..Len(shown) :
                    shown[i] \in {"askPassword", "noPassword", "noBot"}})

FormRequestOpen == Open("GetAuthorizationForm", "") # {}

PasswordRequestOpen == Open("GetPassword", "") # {}

(* C32: showForm runs in the step that delivers the second of the two       *)
(* results and in no other, once; it never runs after an error of either    *)
(* request, nor when the request has no payload.                            *)
C32_FormShownOnceAfterBothResults ==
    /\ [](ShowFormCalls <= 1)
    /\ [](requestPayload = "" => ShowFormCalls = 0)
    /\ [][ShowFormCalls' # ShowFormCalls
            => /\ op'.name \in {"formDone", "passwordDone"}
               /\ ~FormRequestOpen'
               /\ ~PasswordRequestOpen'
               /\ requestPayload # ""]_vars
    /\ [](op.name = "formFail" => [](ShowFormCalls = 0))
    /\ [](op.name = "formDone"
            => [](op.name = "passwordDone" => ShowFormCalls = 1))
    /\ [](op.name = "passwordDone"
            => [](op.name = "formDone" => ShowFormCalls = 1))

(* The form arrived first, the password second, and the form is shown.      *)
C32_Witness ==
    /\ op.name = "passwordDone"
    /\ formRequest # <<>>
    /\ ShowFormCalls = 1
    /\ ~FormRequestOpen
    /\ ~PasswordRequestOpen

----------------------------------------------------------------------------
(* Upload notifications: the uploader reports on the attempts it works on   *)
(* and, late, on attempts it no longer works on or never knew.              *)

MaxAttemptId == 3

AttemptIds == 1..MaxAttemptId

(* secureReady, secureProgress or secureFailed for an attempt the uploader  *)
(* does not work on.                                                        *)
LateUploadNotice ==
    /\ Running
    /\ \E fullId \in AttemptIds \ uploads :
          \/ Commit(scanUploadDone(
                       Begin("scanUploadDone", "", 0, fullId), fullId, 1))
          \/ Commit(scanUploadProgress(
                       Begin("scanUploadProgress", "", 0, fullId), fullId, 1))
          \/ Commit(scanUploadFail(
                       Begin("scanUploadFail", "", 0, fullId), fullId))

NextNotify ==
    \/ Show
    \/ FormDone(UploadForm)
    \/ PasswordDone("salt")
    \/ SubmitPassword(ThePassword)
    \/ PasswordCheckDone
    \/ StartValueEdit("Passport")
    \/ CancelValueEdit("Passport")
    \/ \E content \in Contents :
          /\ Encrypting < MaxEncrypting
          /\ "Passport" \in DOMAIN values
          /\ values["Passport"].scansInEdit = <<>>
          /\ UploadScan("Passport", content)
    \/ \E content \in Contents :
          /\ Encrypting < MaxEncrypting
          /\ UploadSelfie("Passport", content)
    \/ EncryptAsync
    \/ RunMain
    \/ ScanUploadDone(1)
    \/ ScanUploadProgress(1)
    \/ ScanUploadFail
    \/ LateUploadNotice

SpecNotify == InitUpload /\ [][NextNotify]_vars

UploadNotices == {"scanUploadDone", "scanUploadProgress", "scanUploadFail"}

StagedPlaces == Places(Cur)

StagedAt(place) == editFileAt(Cur, place)

(* The staged files that carry the attempt id.                              *)
Carriers(fullId) ==
    {place \in StagedPlaces :
        /\ StagedAt(place).uploadData # <<>>
        /\ StagedAt(place).uploadData[1].fullId = fullId}

WithoutStaged(value) ==
    [value EXCEPT !.scansInEdit = <<>>, !.selfieInEdit = <<>>]

(* C33: a notification changes, of the controller's state, at most the      *)
(* staged file that carries its attempt id; it changes no file whose upload *)
(* completed, and with no carrier it changes and fires nothing.             *)
C33_NoticeTouchesItsFileOnly ==
    [][op'.name \in UploadNotices
         => /\ failure' = "none"
            /\ UNCHANGED <<formRequest, selfieRequired, requestPayload, bot,
                           shown, fileLoaders, passwordSalt, secret, secretId,
                           secretCallbacks, saveSecretRequestId,
                           passwordCheckRequestId, submitRequestId,
                           formRequestId, passwordRequestId, network,
                           remoteSecret, mainQueue, asyncTasks, loading>>
            /\ sent' = <<>>
            /\ cancelled' = {}
            /\ Cardinality(Carriers(op'.arg)) <= 1
            /\ StagedPlaces' = StagedPlaces
            /\ DOMAIN values' = DOMAIN values
            /\ \A type \in DOMAIN values :
                  WithoutStaged(values'[type]) = WithoutStaged(values[type])
            /\ \A place \in StagedPlaces :
                  (\/ place \notin Carriers(op'.arg)
                   \/ StagedAt(place).uploadData[1].partsCount > 0)
                     => StagedAt(place)' = StagedAt(place)
            /\ Carriers(op'.arg) = {}
                  => (values' = values /\ fired' = <<>>)]_vars

(* A notification arrived for the attempt of the one staged file after its  *)
(* upload completed, and nothing was fired.                                 *)
C33_Witness ==
    /\ op.name \in {"scanUploadProgress", "scanUploadFail"}
    /\ op.arg = 1
    /\ fired = <<>>
    /\ Cardinality(StagedPlaces) = 1
    /\ \A place \in StagedPlaces :
          /\ StagedAt(place).uploadData # <<>>
          /\ StagedAt(place).uploadData[1].fullId = 0
          /\ StagedAt(place).uploadData[1].partsCount > 0
          /\ StagedAt(place).uploadData[1].offset = 0

----------------------------------------------------------------------------
(* What a save carries: stored personal details without files and a stored  *)
(* passport with a scan and a selfie, of a user whose secret unwraps; the   *)
(* view saves the fields unchanged, changed, blanked or removed, and it     *)
(* deletes and restores the selfie.                                         *)

FlagsForm ==
    [values |-> <<StoredDocument("PersonalDetails",
                                 [ValueMap EXCEPT !["name"] = "a"],
                                 0, FALSE, MasterSecret("srv")),
                  StoredDocument("Passport",
                                 [ValueMap EXCEPT !["name"] = "a"],
                                 1, TRUE, MasterSecret("srv"))>>,
     required |-> <<"PersonalDetails", "Passport">>,
     selfieRequired |-> TRUE, bot |-> TRUE]

FlagsMaps(type) ==
    IF type = "PersonalDetails"
    THEN {ValueMap, [ValueMap EXCEPT !["name"] = ""],
          [ValueMap EXCEPT !["name"] = "a"]}
    ELSE {[ValueMap EXCEPT !["name"] = "a"]}

NextFlags ==
    \/ Show
    \/ FormDone(FlagsForm)
    \/ PasswordDone("salt")
    \/ SubmitPassword(ThePassword)
    \/ PasswordCheckDone
    \/ \E type \in EncryptedTypes :
          /\ type \in DOMAIN values
          /\ values[type].editScreens = 0
          /\ StartValueEdit(type)
    \/ \E type \in EncryptedTypes : CancelValueEdit(type)
    \/ DeleteSelfie("Passport")
    \/ RestoreSelfie("Passport")
    \/ \E type \in EncryptedTypes :
          \E data \in FlagsMaps(type) : SaveValueEdit(type, data)
    \/ RunMain
    \/ \E type \in EncryptedTypes : SaveValueDone(type)

SpecFlags == InitUpload /\ [][NextFlags]_vars

(* C34: saveEncryptedValue's Assert(flags != 0) never fails, and every save *)
(* request of an encrypted value that is open carries data, files or a      *)
(* selfie.                                                                  *)
C34_SaveCarriesDataFilesOrSelfie ==
    /\ failure # "saveEncryptedValue.Assert"
    /\ \A id \in DOMAIN network :
          (/\ network[id].kind = "SaveSecureValue"
           /\ isEncryptedValue(network[id].type))
             => \/ network[id].payload.flags.data
                \/ network[id].payload.flags.files
                \/ network[id].payload.flags.selfie

(* The same of the saves of a value that has scans or a selfie staged, or   *)
(* whose fields are not all removed.                                        *)
SaveWithContentCarriesIt ==
    [][(/\ op'.name = "saveValueEdit"
        /\ \/ values[op'.type].scansInEdit # <<>>
           \/ \E i \in 1..Len(values[op'.type].selfieInEdit) :
                 ~values[op'.type].selfieInEdit[i].deleted
           \/ ~MapEmpty(op'.arg))
          => failure' = "none"]_vars

====
